---------------------------- MODULE Spec2Model ----------------------------
(***************************************************************************)
(* Model of the confidence-gated answering-and-escalation pipeline of the  *)
(* security-questionnaire answerer:                                        *)
(*   - KnowledgeAgent (agents/knowledge_agent.py): normalizer, verified-   *)
(*     answer cache, retriever, confidence scorer, answerability judge;    *)
(*   - QuestionnaireOrchestrator (src/agents/orchestrator.py) with the     *)
(*     citation and drafting agents and the Fireworks client;              *)
(*   - EscalationAgent (src/agents/escalation_agent.py and                 *)
(*     agents/escalation_agent.py).                                        *)
(*                                                                         *)
(* Numbers.  Every confidence, score and threshold is an integer count of  *)
(* 1/1200: 0.7 is 840, 0.98 is 1176, 0.15 is 180.  In that unit every      *)
(* value the scorer computes is an integer (see calculate_confidence), so  *)
(* the arithmetic below is the exact real arithmetic of the Python         *)
(* expressions; binary floating-point rounding (0.8900000000000001 for     *)
(* 0.89) is not modelled.  Similarity scores are counts of 1/100 and       *)
(* authority weights counts of 1/10.                                       *)
(***************************************************************************)
EXTENDS Integers, Sequences, FiniteSets, TLC

VARIABLES
    confidence_threshold, \* self.confidence_threshold of the agent under study
    evidence,             \* scorer study: the evidence list handed to the scorer
    scPc,                 \* scorer study: "ready" | "scored"
    score,                \* scorer study: what _calculate_confidence returned
    scAnswers,            \* scorer study: the judge's verdict (answers_question)
    scNeeds,              \* scorer study: the decision, confidence < threshold
    qa_library,           \* the qa_library collection: fingerprint -> record
    kaPc,                 \* answer_question: "idle" | "returned" | "raised"
    kaIn,                 \* answer_question: the collaborators' replies of the call
    kaResp,               \* answer_question: the AgentResponse returned
    kaCalls,              \* answer_question: the collaborators it invoked
    batch_size,           \* OrchestratorConfig.batch_size
    run_escalation,       \* OrchestratorConfig.run_escalation
    orchPc,               \* "idle" | "running" | "escalating" | "finished" | "failed"
    orchError,            \* the exception that left the handler, or "none"
    entry,                \* the method the caller invoked
    request,              \* the QuestionnaireInput being processed
    batch_answers,        \* _process_batch: answers of the batch in progress
    all_batches,          \* process_questionnaire: all_batches
    total_escalations,    \* process_questionnaire: total_escalations
    output,               \* the QuestionnaireOutput returned
    escIn,                \* the answers handed to the escalation agent
    escResults,           \* escalation_results
    escVerdicts,          \* per result, the requires_escalation value the LLM
                          \* decision carried, or "not consulted"
    escResponse,          \* the EscalationResponse returned
    orchTrace,            \* what _process_batch did for the question last answered
    kaVariant,            \* learning study: "agents" or "src" knowledge agent
    learnQuestions,       \* learning study: the questions of the run
    lastLearn,            \* learning study: the learn_from_feedback call just made
    lookup,               \* learning study: the cache lookup just made
    rtPc,                 \* routing study: "ready" | "routed"
    rtIn,                 \* routing study: category, suggested department, directory
    rtOut,                \* routing study: the router applied and what it returned
    lgPc,                 \* legacy batch study: "ready" | "returned"
    lgIn,                 \* legacy batch study: the lengths of the lists passed
    lgOut,                \* legacy batch study: what process_batch_legacy did
    workers,              \* worker study: per question, its position and local values
    agentFlags,           \* worker study: the one-time logging flags set on the agent
    directory             \* worker study: the employees collection the workers read

None == "None"

Min(a, b) == IF a <= b THEN a ELSE b

(***************************************************************************)
(* Bounds of the model.                                                    *)
(***************************************************************************)
MaxEvidence == 4

(***************************************************************************)
(* Program constants, in 1/1200.                                           *)
(***************************************************************************)
CONFIDENCE_THRESHOLD == 840    \* 0.7
QA_LIBRARY_BOOST == 180        \* 0.15
CONFIDENCE_CAP == 1176         \* 0.98
QA_CONFIDENCE_CAP == 1188      \* 0.99
QA_DEFAULT_CONFIDENCE == 1080  \* 0.9
LEARNED_CONFIDENCE == 1140     \* 0.95
WEAK_EVIDENCE_LIMIT == 480     \* 0.4
TOP_K == 3                     \* evidence[:3]
ANSWERABILITY_PENALTY == 600   \* 0.5
SEMANTIC_THRESHOLD == 1020     \* 0.85
FINGERPRINT_PREFIX == 30       \* question[:30]

(***************************************************************************)
(* Evidence (agents/knowledge_agent.py, class Evidence): the two fields    *)
(* the scorer reads.                                                       *)
(***************************************************************************)
Sims == {0, 90, 100}
DocTypes == {"soc2", "policy", "procedure", "other", "unknown"}
EvidenceItems == [similarity_score : Sims, doc_type : DocTypes]

SeqsUpTo(S, n) == UNION {[1..k -> S] : k \in 0..n}
EvidenceLists == SeqsUpTo(EvidenceItems, MaxEvidence)

\* evidence[:n]
Take(s, n) == SubSeq(s, 1, Min(Len(s), n))

\* authority_map.get(e.doc_type, 0.5), in tenths
Authority(t) ==
    CASE t = "soc2" -> 10
      [] t = "policy" -> 8
      [] t = "procedure" -> 7
      [] t = "other" -> 5
      [] OTHER -> 5

RECURSIVE SumAuthority(_)
SumAuthority(s) ==
    IF s = <<>> THEN 0 ELSE Authority(Head(s).doc_type) + SumAuthority(Tail(s))

\* 0.5 * top_score + 0.3 * avg_authority + 0.2 * count_factor, in 1/1200:
\*   0.5 * (S/100)            = 6*S / 1200
\*   0.3 * (sum/10) / k       = (36*sum / k) / 1200   (k in 1..3 divides 36)
\*   0.2 * min(n/3, 1.0)      = 80*min(n,3) / 1200
\* a faulty variant: the authority is averaged over every item, not over evidence[:3]
MeanOverAllEvidence(ev) ==
    6 * ev[1].similarity_score + (36 * SumAuthority(ev)) \div Len(ev)
        + 80 * Min(Len(ev), TOP_K)

WeightedConfidence(ev) ==
    LET k == Min(Len(ev), TOP_K)
        top_score == ev[1].similarity_score
        sumAuth == SumAuthority(Take(ev, TOP_K))
    IN  6 * top_score + (36 * sumAuth) \div k + 80 * k

\* a faulty variant: the result is returned without the cap
UncappedConfidence(ev) ==
    IF ev = <<>> THEN 0 ELSE WeightedConfidence(ev)

calculate_confidence(ev) ==
    IF ev = <<>> THEN 0 ELSE Min(WeightedConfidence(ev), CONFIDENCE_CAP)

(***************************************************************************)
(* Question text: a sequence of characters.  str.lower() and               *)
(* str.replace(" ", "_") act character by character.                       *)
(***************************************************************************)
Lower(c) ==
    CASE c = "D" -> "d"
      [] c = "M" -> "m"
      [] c = "F" -> "f"
      [] c = "A" -> "a"
      [] OTHER -> c

RECURSIVE MapLower(_)
MapLower(s) == IF s = <<>> THEN <<>> ELSE <<Lower(Head(s))>> \o MapLower(Tail(s))

RECURSIVE ReplaceChar(_, _, _)
ReplaceChar(s, old, new) ==
    IF s = <<>> THEN <<>>
    ELSE <<IF Head(s) = old THEN new ELSE Head(s)>> \o ReplaceChar(Tail(s), old, new)

Questions == { <<"D", "o", " ", "m", "f", "a", "?">>,
               <<"d", "o", " ", "M", "F", "A", "?">> }

Categories == {"encryption", "other"}

\* question[:30].lower().replace(" ", "_")
FallbackFingerprint(q) == ReplaceChar(MapLower(Take(q, FINGERPRINT_PREFIX)), " ", "_")

\* what the normalizer's LLM may send back for the "fingerprint" key
LLMFingerprints == { <<"m", "f", "a">>, <<"k", "m", "s">> }

Fingerprints == LLMFingerprints \cup {FallbackFingerprint(q) : q \in Questions}

\* dict.get(key, default)
Get(d, k, default) == IF k \in DOMAIN d THEN d[k] ELSE default

(***************************************************************************)
(* _normalize_question (agents/knowledge_agent.py): the LLM is asked for   *)
(* the fingerprint.  Its reply is: the call raising, a text that does not  *)
(* parse (the except branch computes the fallback), a JSON object lacking  *)
(* the "fingerprint" key, or a JSON object carrying one.                   *)
(***************************************************************************)
NormReplies ==
    [kind : {"raise", "unparseable", "no_fingerprint"}, fingerprint : {<<>>}, category : {"other"}]
    \cup { [kind |-> "json", fingerprint |-> <<"m", "f", "a">>, category |-> "other"],
           [kind |-> "json", fingerprint |-> <<"k", "m", "s">>, category |-> "encryption"] }

\* the dict _normalize_question returns ("raise": the call itself raised)
normalize_question(q, reply) ==
    CASE reply.kind = "raise" -> [kind |-> "raise"]
      [] reply.kind = "unparseable" ->
            [kind |-> "ok", fingerprint |-> FallbackFingerprint(q), category |-> "other"]
      [] reply.kind = "no_fingerprint" -> [kind |-> "ok", category |-> reply.category]
      [] OTHER ->
            [kind |-> "ok", fingerprint |-> reply.fingerprint, category |-> reply.category]

(***************************************************************************)
(* The qa_library collection: the documents in natural (insertion) order,  *)
(* each with its _id.  _check_qa_library makes the exact keyed read, then   *)
(* the semantic search whose failures are caught.  The store and the        *)
(* vector index are collaborators: store_up says whether find_one answers,  *)
(* sem is what embed + aggregate give: the search raising, no result, or    *)
(* the document at position `top` as results[0] with its score.             *)
(***************************************************************************)
SemScores == {1008, 1020, 1032}   \* 0.84, 0.85, 0.86

SemReplies(lib) ==
    [kind : {"raise", "empty"}, top : {0}, score : {0}]
    \cup [kind : {"hit"}, top : DOMAIN lib, score : SemScores]

\* qa_collection.find_one({"question_fingerprint": fingerprint}): the positions
\* of the matching documents, of which the first is returned
ExactMatches(lib, fingerprint) ==
    {i \in DOMAIN lib : lib[i].question_fingerprint = fingerprint}

First(positions) == CHOOSE i \in positions : \A j \in positions : i <= j

\* a faulty variant: a hit scoring exactly the threshold is accepted
AcceptsAtThreshold(sc) == sc >= SEMANTIC_THRESHOLD

\* results[0].get("score", 0) > 0.85
AcceptsSemantic(sc) == sc > SEMANTIC_THRESHOLD

\* [kind |-> "raise"] | [kind |-> "miss"] | [kind |-> "match", record |-> the document]
check_qa_library(lib, fingerprint, store_up, sem) ==
    IF ~store_up THEN [kind |-> "raise", calls |-> {"qa_find_one"}]
    ELSE IF ExactMatches(lib, fingerprint) # {}
    THEN [kind |-> "match", record |-> lib[First(ExactMatches(lib, fingerprint))],
          calls |-> {"qa_find_one"}]
    ELSE IF sem.kind = "hit" /\ AcceptsSemantic(sem.score)
    THEN [kind |-> "match", record |-> lib[sem.top],
          calls |-> {"qa_find_one", "qa_semantic_search"}]
    ELSE [kind |-> "miss", calls |-> {"qa_find_one", "qa_semantic_search"}]

\* min(qa_match.get("confidence", 0.9) + QA_LIBRARY_BOOST, 0.99)
QaConfidence(rec) ==
    Min(Get(rec, "confidence", QA_DEFAULT_CONFIDENCE) + QA_LIBRARY_BOOST, QA_CONFIDENCE_CAP)

build_response_from_qa(q, rec, category) ==
    [question |-> q,
     answer |-> rec.answer,
     confidence |-> QaConfidence(rec),
     source_type |-> "qa_library",
     evidence |-> <<[similarity_score |-> 100, doc_type |-> "verified"]>>,
     needs_escalation |-> FALSE,
     category |-> category,
     escalation_reason |-> None]

(***************************************************************************)
(* _check_answerability: with no evidence the judge is not called and the  *)
(* verdict is (False, "No evidence available"); otherwise the reply text   *)
(* decides: result.upper().startswith("ANSWERS").                          *)
(***************************************************************************)
JudgeReplies == {"raise", "ANSWERS: x", "answers: x", "RELATED: x", "It depends"}

StartsWithAnswers(reply) == reply \in {"ANSWERS: x", "answers: x"}

\* [kind |-> "raise"] | [kind |-> "ok", answers, reasoning, called]
check_answerability(ev, reply) ==
    IF ev = <<>>
    THEN [kind |-> "ok", answers |-> FALSE, reasoning |-> "No evidence available",
          called |-> FALSE]
    ELSE IF reply = "raise" THEN [kind |-> "raise", called |-> TRUE]
    ELSE [kind |-> "ok", answers |-> StartsWithAnswers(reply), reasoning |-> "x",
          called |-> TRUE]

\* a faulty variant: the penalty is skipped
NoPenalty(raw_confidence, answers_question) == raw_confidence

\* raw_confidence * ANSWERABILITY_PENALTY when the evidence does not answer
AdjustConfidence(raw_confidence, answers_question) ==
    IF ~answers_question
    THEN (raw_confidence * ANSWERABILITY_PENALTY) \div 1200
    ELSE raw_confidence

\* a faulty variant: a confidence equal to the threshold is also escalated
AtOrBelowThreshold(confidence, threshold) == confidence <= threshold

\* confidence < self.confidence_threshold
BelowThreshold(confidence, threshold) == confidence < threshold

\* the custom_reason answer_question passes
EscalationReason(answers_question, reasoning) ==
    IF ~answers_question
    THEN IF reasoning = "No evidence available"
         THEN "Evidence is topically related but doesn't answer the question: No evidence available"
         ELSE "Evidence is topically related but doesn't answer the question: x"
    ELSE "Confidence below threshold - needs human verification"

build_escalation_response(q, ev, confidence, category, custom_reason) ==
    [question |-> q,
     answer |-> "[REQUIRES HUMAN REVIEW]",
     confidence |-> confidence,
     source_type |-> "escalate",
     evidence |-> Take(ev, TOP_K),
     needs_escalation |-> TRUE,
     category |-> category,
     escalation_reason |->
        IF custom_reason # "" THEN custom_reason
        ELSE IF ev = <<>> THEN "No relevant evidence found in knowledge base"
        ELSE IF confidence < WEAK_EVIDENCE_LIMIT
             THEN "Evidence is weak or not directly relevant"
        ELSE "Evidence found but confidence below threshold - needs human verification"]

\* _draft_answer after the drafter's LLM replied (reads evidence[0])
draft_answer(q, ev, confidence, category) ==
    [question |-> q,
     answer |-> "drafted",
     confidence |-> confidence,
     source_type |-> "vector_search",
     evidence |-> Take(ev, TOP_K),
     needs_escalation |-> FALSE,
     category |-> category,
     escalation_reason |-> None]

(***************************************************************************)
(* answer_question, the agent's decision loop.  `in` holds what the        *)
(* collaborators reply during the call:                                    *)
(*   norm      the normalizer's LLM         store_up  qa_library.find_one  *)
(*   sem       embed + $vectorSearch on qa_library                         *)
(*   search    "raise" or "ok": embed + $vectorSearch on chunks            *)
(*   evidence  the chunks found             judge     the judge's LLM      *)
(*   draft_up  whether the drafter's LLM answers                           *)
(* The outcome is [pc, resp, calls]: pc "returned" with the AgentResponse, *)
(* or pc "raised" when an exception leaves answer_question.                *)
(***************************************************************************)
\* no AgentResponse: before a call, and after one that raised
NoResponse == [source_type |-> "none"]
NoReplies == [question |-> <<>>]

Raised(calls) == [pc |-> "raised", resp |-> NoResponse, calls |-> calls]
Returned(resp, calls) == [pc |-> "returned", resp |-> resp, calls |-> calls]

\* Steps 6 and 7: escalate below the threshold, else draft
DecideAndDraft(q, in, category, threshold, verdict, calls) ==
    LET raw_confidence == calculate_confidence(in.evidence)
        confidence == AdjustConfidence(raw_confidence, verdict.answers)
    IN  IF BelowThreshold(confidence, threshold)
        THEN Returned(build_escalation_response(q, in.evidence, confidence, category,
                          EscalationReason(verdict.answers, verdict.reasoning)), calls)
        ELSE IF ~in.draft_up \/ in.evidence = <<>>
        THEN Raised(calls \cup {"drafter_llm"})
        ELSE Returned(draft_answer(q, in.evidence, confidence, category),
                      calls \cup {"drafter_llm"})

\* Steps 3 to 5: vector search, score, answerability
SearchAndJudge(q, in, category, threshold, calls) ==
    IF in.search = "raise" THEN Raised(calls \cup {"chunk_search"})
    ELSE LET verdict == check_answerability(in.evidence, in.judge)
             calls2 == calls \cup {"chunk_search"}
                         \cup (IF verdict.called THEN {"judge_llm"} ELSE {})
         IN  IF verdict.kind = "raise" THEN Raised(calls2)
             ELSE DecideAndDraft(q, in, category, threshold, verdict, calls2)

answer_question(lib, threshold, q, in) ==
    LET normalized == normalize_question(q, in.norm)
    IN  IF normalized.kind = "raise" \/ "fingerprint" \notin DOMAIN normalized
        THEN Raised({"normalizer_llm"})
        ELSE LET qa_match == check_qa_library(lib, normalized.fingerprint, in.store_up, in.sem)
                 calls == {"normalizer_llm"} \cup qa_match.calls
             IN  CASE qa_match.kind = "raise" -> Raised(calls)
                   [] qa_match.kind = "match" ->
                        Returned(build_response_from_qa(q, qa_match.record,
                                                        normalized.category), calls)
                   [] OTHER -> SearchAndJudge(q, in, normalized.category, threshold, calls)

\* what the retriever returns in the agent study
RetrievedItems == { [similarity_score |-> 100, doc_type |-> "soc2"],
                    [similarity_score |-> 90, doc_type |-> "policy"],
                    [similarity_score |-> 0, doc_type |-> "unknown"] }

\* the replies that matter once the cache missed: nothing after a failed
\* search, and no judge reply when there is no evidence to judge
NotReached == [search |-> "raise", evidence |-> <<>>, judge |-> "raise", draft_up |-> FALSE]

LateReplies ==
    {NotReached} \cup
    UNION { [search : {"ok"}, evidence : {ev},
             judge : IF ev = <<>> THEN {"raise"} ELSE JudgeReplies,
             draft_up : BOOLEAN] : ev \in SeqsUpTo(RetrievedItems, MaxEvidence) }

EarlyReplies(lib) == [norm : NormReplies, store_up : BOOLEAN, sem : SemReplies(lib)]

Replies(early, late) ==
    [norm |-> early.norm, store_up |-> early.store_up, sem |-> early.sem,
     search |-> late.search, evidence |-> late.evidence, judge |-> late.judge,
     draft_up |-> late.draft_up]

\* the verified answers the store may hold when the agent starts
QaId(fingerprint) == <<"q", "a", "_">> \o fingerprint

LibrarySeeds ==
    { <<>>,
      << [_id |-> QaId(<<"m", "f", "a">>), question_fingerprint |-> <<"m", "f", "a">>,
          answer |-> "a1", confidence |-> 1020] >>,
      << [_id |-> QaId(<<"d", "o", "_", "m", "f", "a", "?">>),
          question_fingerprint |-> <<"d", "o", "_", "m", "f", "a", "?">>,
          answer |-> "a2"] >>,
      << [_id |-> QaId(<<"k", "m", "s">>), question_fingerprint |-> <<"k", "m", "s">>,
          answer |-> "a1", confidence |-> LEARNED_CONFIDENCE] >> }

(***************************************************************************)
(* The keyword normalizer of src/agents/knowledge_agent.py: no LLM; the     *)
(* category is the first of category_keywords with a keyword in the         *)
(* lower-cased text, the fingerprint the first five words joined by "_"     *)
(* without "?" and "'".                                                     *)
(***************************************************************************)
FINGERPRINT_WORDS == 5         \* question_lower.split()[:5]

\* kw in question_lower
Contains(s, kw) ==
    \E i \in 1..(Len(s) - Len(kw) + 1) : SubSeq(s, i, i + Len(kw) - 1) = kw

\* category_keywords, in dictionary order (the keywords over the letters of
\* the questions of this model)
CategoryKeywords ==
    << [category |-> "encryption", keywords |-> {<<"a", "e", "s">>, <<"k", "m", "s">>}],
       [category |-> "authentication", keywords |-> {<<"a", "u", "t", "h">>, <<"m", "f", "a">>}],
       [category |-> "compliance", keywords |-> {<<"s", "o", "c", "2">>}] >>

KeywordCategory(question_lower) ==
    LET hits == {i \in DOMAIN CategoryKeywords :
                    \E kw \in CategoryKeywords[i].keywords : Contains(question_lower, kw)}
    IN  IF hits = {} THEN "other"
        ELSE CategoryKeywords[CHOOSE i \in hits : \A j \in hits : i <= j].category

\* str.split(): the maximal runs of characters other than the blank
RECURSIVE SplitWords(_, _)
SplitWords(s, word) ==
    IF s = <<>> THEN (IF word = <<>> THEN <<>> ELSE <<word>>)
    ELSE IF Head(s) = " "
         THEN (IF word = <<>> THEN <<>> ELSE <<word>>) \o SplitWords(Tail(s), <<>>)
         ELSE SplitWords(Tail(s), Append(word, Head(s)))

\* "_".join(words)
RECURSIVE JoinWords(_)
JoinWords(words) ==
    IF words = <<>> THEN <<>>
    ELSE IF Len(words) = 1 THEN Head(words)
    ELSE Head(words) \o <<"_">> \o JoinWords(Tail(words))

\* str.replace(c, "")
RECURSIVE RemoveChar(_, _)
RemoveChar(s, c) ==
    IF s = <<>> THEN <<>>
    ELSE (IF Head(s) = c THEN <<>> ELSE <<Head(s)>>) \o RemoveChar(Tail(s), c)

KeywordFingerprint(q) ==
    RemoveChar(RemoveChar(
        JoinWords(Take(SplitWords(MapLower(q), <<>>), FINGERPRINT_WORDS)), "?"), "'")

\* five words of five letters, each followed by a blank: 30 characters
SharedWords ==
    <<"d", "o", "m", "f", "a", " ", "d", "o", "m", "f", "a", " ",
      "d", "o", "m", "f", "a", " ", "d", "o", "m", "f", "a", " ",
      "d", "o", "m", "f", "a", " ">>

\* two questions of six words that differ in the sixth word only
LongQuestions == { SharedWords \o <<"k">>, SharedWords \o <<"s">> }

\* the questions a run promotes and looks up: the short ones above, or the
\* long ones
LearnQuestions == {Questions, LongQuestions}

\* KnowledgeAgent._normalize_question of src/agents/knowledge_agent.py
keyword_normalize_question(q) ==
    [kind |-> "ok", fingerprint |-> KeywordFingerprint(q),
     category |-> KeywordCategory(MapLower(q))]

\* the two agents: "agents" asks an LLM, "src" matches keywords
Variants == {"agents", "src"}
NoNormReply == [kind |-> "none", fingerprint |-> <<>>, category |-> "other"]
NormRepliesOf(variant) == IF variant = "agents" THEN NormReplies ELSE {NoNormReply}

Normalize(variant, q, reply) ==
    IF variant = "agents" THEN normalize_question(q, reply)
    ELSE keyword_normalize_question(q)

(***************************************************************************)
(* learn_from_feedback: normalize, embed, and replace_one(upsert=True) on   *)
(* _id = "qa_" + fingerprint.                                               *)
(***************************************************************************)
ApprovedAnswers == {"a1", "a2"}

\* a faulty variant: a record already stored under the id is deleted
DeleteThenInsert(lib, id, record) ==
    LET hits == {i \in DOMAIN lib : lib[i]._id = id}
    IN  IF hits = {} THEN Append(lib, record)
        ELSE SelectSeq(lib, LAMBDA r : r._id # id)

\* replace_one({"_id": id}, record, upsert=True)
ReplaceOne(lib, id, record) ==
    LET hits == {i \in DOMAIN lib : lib[i]._id = id}
    IN  IF hits = {} THEN Append(lib, record)
        ELSE [lib EXCEPT ![First(hits)] = record]

\* [kind |-> "raise"] or [kind |-> "ok", lib, fingerprint]; embed_up and
\* store_up say whether voyage.embed and replace_one answer
learn_from_feedback(lib, variant, q, approved_answer, evidence_source, reply, embed_up, store_up) ==
    LET normalized == Normalize(variant, q, reply)
    IN  IF normalized.kind = "raise" \/ ~embed_up
           \/ ~({"fingerprint", "category"} \subseteq DOMAIN normalized)
           \/ ~store_up
        THEN [kind |-> "raise"]
        ELSE [kind |-> "ok",
              fingerprint |-> normalized.fingerprint,
              category |-> normalized.category,
              lib |-> ReplaceOne(lib, QaId(normalized.fingerprint),
                          [_id |-> QaId(normalized.fingerprint),
                           question_fingerprint |-> normalized.fingerprint,
                           answer |-> approved_answer,
                           evidence_source |-> evidence_source,
                           confidence |-> LEARNED_CONFIDENCE])]

\* the cache lookup of a question: _normalize_question, then
\* _check_qa_library on the fingerprint it gave (steps 1 and 2 of
\* answer_question and of retrieve)
cache_lookup(lib, variant, q, reply, store_up, sem) ==
    LET normalized == Normalize(variant, q, reply)
    IN  IF normalized.kind = "raise"
        THEN [kind |-> "raise", calls |-> {}, failed |-> "normalizer"]
        ELSE IF "fingerprint" \notin DOMAIN normalized
        THEN [kind |-> "raise", calls |-> {}, failed |-> "fingerprint_key"]
        ELSE LET qa_match == check_qa_library(lib, normalized.fingerprint, store_up, sem)
             IN  IF qa_match.kind = "raise"
                 THEN [kind |-> "raise", calls |-> qa_match.calls, failed |-> "qa_find_one",
                       fingerprint |-> normalized.fingerprint]
                 ELSE IF qa_match.kind = "match"
                 THEN [kind |-> "match", calls |-> qa_match.calls,
                       fingerprint |-> normalized.fingerprint,
                       category |-> normalized.category,
                       record |-> qa_match.record]
                 ELSE [kind |-> "miss", calls |-> qa_match.calls,
                       fingerprint |-> normalized.fingerprint,
                       category |-> normalized.category]

(***************************************************************************)
(* The orchestrated pipeline (src/agents/orchestrator.py): for every       *)
(* question the knowledge agent retrieves documents, the citation agent     *)
(* and the drafting agent each make one chat completion, and the answer is  *)
(* flagged when the drafter's self-reported score is below the threshold.   *)
(***************************************************************************)
MaxQuestions == 2

VERY_LOW_BAND == 360           \* 0.3
LOW_BAND == 600                \* 0.5
PARSE_ERROR_CONFIDENCE == 120  \* 0.1
SCORE_FIELD_MAX == 1200        \* Field(ge=0.0, le=1.0)
ORCHESTRATOR_THRESHOLD == 600  \* OrchestratorConfig.confidence_threshold = 0.5

\* configurations: batch sizes, and thresholds 0.1, 0.5 (OrchestratorConfig)
\* and 0.7 (settings.confidence_threshold)
BatchSizes == {1, 2}
OrchThresholds == {PARSE_ERROR_CONFIDENCE, ORCHESTRATOR_THRESHOLD, CONFIDENCE_THRESHOLD}

\* QuestionnaireInput: n questions, every other one without a category
QuestionOf(i) ==
    [question_id |-> i, category |-> IF i % 2 = 1 THEN "compliance" ELSE None]
QuestionnaireInputs ==
    { [questions |-> [i \in 1..n |-> QuestionOf(i)],
       context_documents |-> <<"ctx_doc">>] : n \in 0..MaxQuestions }

\* str.lower on the confidence labels a drafter writes
LowerLabel(s) ==
    CASE s = "HIGH" -> "high"
      [] s = "Medium" -> "medium"
      [] OTHER -> s

\* a chat completion either fails (non-200 status, timeout) or returns text
HttpError == [kind |-> "http_error"]
Unparseable == [kind |-> "text", parseable |-> FALSE]
Json(body) == [kind |-> "text", parseable |-> TRUE, body |-> body]

\* FireworksClient.parse_json_response: the parsed object, or the default
\* structure when json.loads fails
DefaultStructure ==
    [answer |-> "Unable to parse response", confidence |-> "low",
     confidence_score |-> PARSE_ERROR_CONFIDENCE, citations |-> <<>>,
     reasoning |-> "JSON parse error"]
parse_json_response(response) ==
    IF response.parseable THEN response.body ELSE DefaultStructure

Raise(error) == [kind |-> "raise", error |-> error]

\* KnowledgeAgent.retrieve as the orchestrator sees it: an exception, a
\* result of the vector search whose context_documents may be empty, or a
\* hit of the Q&A library carrying the verified answer
KnowledgeReplies ==
    { [kind |-> "raise"],
      [kind |-> "ok", source |-> "vector_search", context_documents |-> <<>>],
      [kind |-> "ok", source |-> "vector_search", context_documents |-> <<"kb_doc">>],
      [kind |-> "ok", source |-> "qa_library", context_documents |-> <<"qa_doc">>,
       verified_answer |-> "a1"] }

\* what the citation model can reply
CitationReplies ==
    { HttpError, Unparseable,
      Json([citations |-> <<[doc_title |-> "t"]>>]),
      Json([citations |-> <<>>]),
      Json([citations |-> <<[doc_id |-> "ctx_doc", doc_title |-> "t",
                             relevant_excerpt |-> "x", relevance_score |-> 1]>>]),
      Json([citations |-> <<[doc_id |-> "unknown_doc", doc_title |-> "t",
                             relevant_excerpt |-> "x", relevance_score |-> 1]>>]) }

CitationKeys == {"doc_id", "doc_title", "relevant_excerpt", "relevance_score"}

\* CitationAgent.find_citations
find_citations(question, context_documents, reply) ==
    IF reply.kind = "http_error" THEN Raise("citation_http")
    ELSE LET result == parse_json_response(reply)
             cs == Get(result, "citations", <<>>)
         IN  IF \E i \in 1..Len(cs) : ~(CitationKeys \subseteq DOMAIN cs[i])
             THEN Raise("citation_shape")
             ELSE [kind |-> "ok",
                   citations |-> [i \in 1..Len(cs) |-> cs[i].doc_id]]

\* what the drafting model can reply
DraftReplies ==
    { HttpError, Unparseable,
      Json([answer |-> "drafted"]),
      Json([answer |-> "drafted", confidence |-> "HIGH",
            confidence_score |-> 1800, reasoning |-> "r"]),
      Json([answer |-> "drafted", confidence |-> "HIGH",
            confidence_score |-> 1200, reasoning |-> "r"]),
      Json([answer |-> "drafted", confidence |-> "Medium",
            confidence_score |-> 600, reasoning |-> "r"]) }

confidence_map(label) ==
    IF label \in {"high", "medium", "low"} THEN label ELSE "medium"

\* DraftingAgent.draft_answer
DraftingAgent_draft_answer(question, citation_result, reply) ==
    IF reply.kind = "http_error" THEN Raise("draft_http")
    ELSE LET result == parse_json_response(reply)
         IN  IF ~({"answer", "confidence", "confidence_score"} \subseteq DOMAIN result)
             THEN Raise("draft_shape")
             ELSE [kind |-> "ok",
                   answer |-> result.answer,
                   confidence |-> confidence_map(LowerLabel(result.confidence)),
                   confidence_score |-> result.confidence_score,
                   reasoning |-> Get(result, "reasoning", None)]

\* the reason the orchestrator attaches to a flagged answer
BandReason(confidence_score) ==
    IF confidence_score < VERY_LOW_BAND THEN "Very low confidence"
    ELSE IF confidence_score < LOW_BAND THEN "Low confidence"
    ELSE "Medium confidence"

\* what one iteration of the loop of _process_batch was given by retrieve,
\* which agents it called, and the answer text it kept
QuestionTrace(kr, docs_for_citation, citations, answer) ==
    [source |-> IF kr.kind = "ok" THEN kr.source ELSE "none",
     verified_answer |-> IF "verified_answer" \in DOMAIN kr
                         THEN kr.verified_answer ELSE None,
     calls |-> {"retrieve", "find_citations", "draft_answer"},
     candidates |-> docs_for_citation,
     citations |-> citations,
     answer |-> answer]

\* One iteration of the loop of _process_batch
process_question(question, context_docs, threshold, kr, cr, dr) ==
    LET docs_for_citation ==
            \* an exception of retrieve is caught: knowledge_result = None
            IF kr.kind = "ok" /\ kr.context_documents # <<>>
            THEN kr.context_documents ELSE context_docs
        citation_result == find_citations(question, docs_for_citation, cr)
    IN  IF citation_result.kind = "raise" THEN citation_result
        ELSE LET draft_result == DraftingAgent_draft_answer(question, citation_result, dr)
             IN  IF draft_result.kind = "raise" THEN draft_result
                 ELSE LET needs_escalation ==
                              BelowThreshold(draft_result.confidence_score, threshold)
                      IN  IF draft_result.confidence_score > SCORE_FIELD_MAX
                          THEN Raise("answer_validation")
                          ELSE [kind |-> "ok",
                                trace |-> QuestionTrace(kr, docs_for_citation,
                                                       citation_result.citations,
                                                       draft_result.answer),
                                answer |->
                                  [question_id |-> question.question_id,
                                   answer |-> draft_result.answer,
                                   confidence |-> draft_result.confidence,
                                   confidence_score |-> draft_result.confidence_score,
                                   citations |-> citation_result.citations,
                                   reasoning |-> draft_result.reasoning,
                                   needs_escalation |-> needs_escalation,
                                   escalation_reason |->
                                     IF needs_escalation
                                     THEN BandReason(draft_result.confidence_score)
                                     ELSE None,
                                   category |-> question.category]]

\* a faulty variant: the quotient is rounded down
FloorDiv(n, b) == n \div b

\* math.ceil(total_questions / batch_size)
CeilDiv(n, b) == (n + b - 1) \div b

\* sum(1 for a in answers if a.needs_escalation)
CountFlagged(answers) == Cardinality({i \in 1..Len(answers) : answers[i].needs_escalation})

RECURSIVE Flatten(_)
Flatten(batches) ==
    IF batches = <<>> THEN <<>>
    ELSE Head(batches).answers \o Flatten(Tail(batches))

(***************************************************************************)
(* The escalation agent (src/agents/escalation_agent.py).  JSON values of   *)
(* the decision's requires_escalation are written "true", "false", "null".  *)
(***************************************************************************)
MaxAnswers == 2

MODEL_COUNT == 3               \* len(model_names)

\* `if not x` is taken by None and by the empty string
Truthy(x) == x \notin {None, ""}

\* category_to_dept of src/agents/escalation_agent.py, in the order of the dict
CategoryToDept ==
    << [key |-> "authentication", dept |-> "Security"],
       [key |-> "authorization", dept |-> "Security"],
       [key |-> "encryption", dept |-> "Security"],
       [key |-> "data_protection", dept |-> "Security"],
       [key |-> "data_handling", dept |-> "Security"],
       [key |-> "access_control", dept |-> "Security"],
       [key |-> "api_security", dept |-> "Engineering"],
       [key |-> "network_security", dept |-> "Security"],
       [key |-> "compliance", dept |-> "Compliance"],
       [key |-> "incident_response", dept |-> "Security"],
       [key |-> "logging", dept |-> "Engineering"],
       [key |-> "infrastructure", dept |-> "Engineering"],
       [key |-> "database", dept |-> "Engineering"] >>

\* category.lower(), on the category texts used here
CategoryLower(category) ==
    CASE category = "Encryption" -> "encryption"
      [] category = "Database Encryption" -> "database encryption"
      [] OTHER -> category

\* key in category_lower: no key is part of another key; of the texts used
\* here only "database encryption" holds keys without being one
KeyIn(key, category_lower) ==
    \/ key = category_lower
    \/ category_lower = "database encryption" /\ key \in {"database", "encryption"}

\* a faulty variant: the last entry whose key is contained wins
LastDept(table, category_lower) ==
    LET hits == {i \in DOMAIN table : KeyIn(table[i].key, category_lower)}
    IN  IF hits = {} THEN "Security"
        ELSE table[CHOOSE i \in hits : \A j \in hits : j <= i].dept

\* for key, dept in category_to_dept.items(): if key in category_lower:
\* return dept; return "Security"
FirstDept(table, category_lower) ==
    LET hits == {i \in DOMAIN table : KeyIn(table[i].key, category_lower)}
    IN  IF hits = {} THEN "Security"
        ELSE table[First(hits)].dept

\* EscalationAgent._suggest_department_from_category
suggest_department_from_category(category) ==
    IF ~Truthy(category) THEN None
    ELSE FirstDept(CategoryToDept, CategoryLower(category))

\* the texts of an AnswerItem and the categories whose keywords they contain
ItemQuestions == {"Is data encrypted?", "Who is your DPO?"}
ItemAnswers == {"We hold a SOC2 report.", "See attached."}
CategoryOrder == <<"encryption", "authentication", "compliance">>
KeywordCategories(text) ==
    CASE text = "Is data encrypted?" -> {"encryption"}
      [] text = "We hold a SOC2 report." -> {"compliance"}
      [] OTHER -> {}

\* the first category, in dictionary order, with a keyword in the text
FirstCategory(text) ==
    LET hits == {i \in 1..Len(CategoryOrder) : CategoryOrder[i] \in KeywordCategories(text)}
    IN  IF hits = {} THEN None
        ELSE CategoryOrder[CHOOSE i \in hits : \A j \in hits : i <= j]

\* EscalationAgent._extract_category_from_answer (items carry no citations)
extract_category_from_answer(answer_item) ==
    IF FirstCategory(answer_item.question_text) # None
    THEN FirstCategory(answer_item.question_text)
    ELSE FirstCategory(answer_item.answer)

\* one attempt on a model: a failure (exception, non-200, text that is not a
\* JSON object) or a parsed decision
Failed == [ok |-> FALSE]
Decided(decision) == [ok |-> TRUE, decision |-> decision]

LLMDecisions ==
    { [requires_escalation |-> "true", reason |-> "llm reason",
       department |-> "Compliance"],
      [requires_escalation |-> "false", reason |-> "llm reason",
       department |-> None],
      [requires_escalation |-> "false", reason |-> None, department |-> None],
      [requires_escalation |-> "null", reason |-> "llm reason"],
      [department |-> None] }

\* the attempts of one call, up to the first success
FireworkAttempts ==
    { <<Decided(d)>> : d \in LLMDecisions }
      \cup { <<Failed, Failed, Decided(d)>> : d \in LLMDecisions }
      \cup { [i \in 1..MODEL_COUNT |-> Failed] }

JsonBool(b) == IF b THEN "true" ELSE "false"

\* the threshold-based decision _check_with_firework falls back to
FallbackDecision(confidence, category, threshold) ==
    [requires_escalation |-> JsonBool(confidence < threshold),
     reason |-> "Threshold-based",
     department |-> suggest_department_from_category(category)]

\* EscalationAgent._check_with_firework: the decision of the first model that
\* answers with a JSON object, else the fallback
RECURSIVE TryModels(_, _, _)
TryModels(attempts, i, fallback) ==
    IF i > MODEL_COUNT \/ i > Len(attempts)
    THEN [decision |-> fallback, calls |-> i - 1, fallback |-> TRUE]
    ELSE IF attempts[i].ok
         THEN [decision |-> attempts[i].decision, calls |-> i, fallback |-> FALSE]
         ELSE TryModels(attempts, i + 1, fallback)

check_with_firework(confidence, category, threshold, attempts) ==
    TryModels(attempts, 1, FallbackDecision(confidence, category, threshold))

\* the employees collection
SecurityLead == [id |-> "e1", department |-> "Security", expertise_areas |-> {"encryption"}]
ComplianceLead == [id |-> "e2", department |-> "Compliance", expertise_areas |-> {"compliance"}]
NoEmployee == [id |-> None]

Databases ==
    { [connected |-> FALSE, failing |-> FALSE, employees |-> <<>>],
      [connected |-> TRUE, failing |-> TRUE, employees |-> <<>>],
      [connected |-> TRUE, failing |-> FALSE, employees |-> <<>>],
      [connected |-> TRUE, failing |-> FALSE, employees |-> <<SecurityLead>>],
      [connected |-> TRUE, failing |-> FALSE, employees |-> <<SecurityLead, ComplianceLead>>] }
DbUnused == [connected |-> FALSE, failing |-> FALSE, employees |-> <<>>]

\* {"$regex": pattern, "$options": "i"}: a case-insensitive search; of the
\* names used here none is a proper part of another
LowerName(s) ==
    CASE s = "Security" -> "security"
      [] s = "Compliance" -> "compliance"
      [] s = "Engineering" -> "engineering"
      [] OTHER -> s
RegexMatchI(pattern, text) == LowerName(pattern) = LowerName(text)

\* collection.find_one: the first document, in natural order, that matches
\* (hits: the positions of the matching documents)
FindOne(employees, hits) ==
    IF hits = {} THEN NoEmployee
    ELSE employees[CHOOSE i \in hits : \A j \in hits : i <= j]

\* a faulty variant: the suggestion and the category are ignored
ComplianceAlways(suggested_department, from_category) == "Compliance"

\* suggested_department or _suggest_department_from_category(category) or "Security"
ResolveDepartment(suggested_department, from_category) ==
    IF Truthy(suggested_department) THEN suggested_department
    ELSE IF Truthy(from_category) THEN from_category
    ELSE "Security"

\* the queries of the find_one calls, in the order the two routers make them:
\* "src" is src/agents/escalation_agent.py, "agents" is agents/escalation_agent.py
StepOrder(router) ==
    IF router = "src" THEN <<"expertise", "department", "security", "any">>
    ELSE <<"expertise_or_department", "department", "security_or_expert">>

HasExpertise(e, category) ==
    Truthy(category) /\ \E area \in e.expertise_areas : RegexMatchI(category, area)

\* whether the employee document satisfies the query of the step
Matches(step, e, category, department) ==
    CASE step = "expertise" -> HasExpertise(e, category)
      [] step = "department" -> RegexMatchI(department, e.department)
      [] step = "security" -> RegexMatchI("security", e.department)
      [] step = "any" -> TRUE
      [] step = "expertise_or_department" ->
            HasExpertise(e, category) \/ RegexMatchI(department, e.department)
      [] step = "security_or_expert" ->
            e.department = "Security" \/ e.expertise_areas # {}

Hits(employees, step, category, department) ==
    {i \in DOMAIN employees : Matches(step, employees[i], category, department)}

\* EscalationAgent._route_to_employee (src/agents/escalation_agent.py);
\* lookups lists the find_one calls it issued
route_to_employee(category, suggested_department, database) ==
    LET department == ResolveDepartment(suggested_department,
                                        suggest_department_from_category(category))
        employees == database.employees
        Find(step) == FindOne(employees, Hits(employees, step, category, department))
        s1 == IF Truthy(category) THEN Find("expertise") ELSE NoEmployee
        s2 == IF s1 = NoEmployee THEN Find("department") ELSE s1
        s3 == IF s2 = NoEmployee THEN Find("security") ELSE s2
        s4 == IF s3 = NoEmployee THEN Find("any") ELSE s3
        lookups == (IF Truthy(category) THEN <<"expertise">> ELSE <<>>)
                   \o (IF s1 = NoEmployee THEN <<"department">> ELSE <<>>)
                   \o (IF s2 = NoEmployee THEN <<"security">> ELSE <<>>)
                   \o (IF s3 = NoEmployee THEN <<"any">> ELSE <<>>)
    IN  IF ~database.connected
        THEN [kind |-> "ok", routed_to |-> NoEmployee, lookups |-> <<>>,
              resolved |-> department]
        ELSE IF database.failing THEN Raise("employee_lookup")
        ELSE [kind |-> "ok",
              routed_to |-> IF s4 = NoEmployee THEN NoEmployee
                            ELSE [id |-> s4.id, department |-> s4.department],
              lookups |-> lookups,
              resolved |-> department]

\* EscalationAgent._suggest_department_from_category of
\* agents/escalation_agent.py
RootCategoryToDept ==
    << [key |-> "authentication", dept |-> "Security"],
       [key |-> "authorization", dept |-> "Security"],
       [key |-> "encryption", dept |-> "Security"],
       [key |-> "data-protection", dept |-> "Security"],
       [key |-> "api-security", dept |-> "Engineering"],
       [key |-> "network-security", dept |-> "Security"],
       [key |-> "compliance", dept |-> "Compliance"],
       [key |-> "gdpr", dept |-> "Compliance"],
       [key |-> "soc2", dept |-> "Compliance"],
       [key |-> "infrastructure", dept |-> "Engineering"],
       [key |-> "database", dept |-> "Engineering"],
       [key |-> "devops", dept |-> "Engineering"] >>

root_suggest_department_from_category(category) ==
    IF ~Truthy(category) THEN None
    ELSE FirstDept(RootCategoryToDept, CategoryLower(category))

\* EscalationAgent._route_to_employee of agents/escalation_agent.py: three
\* lookups, and no test of the connection (db.database.employees raises
\* when the database is None)
root_route_to_employee(category, suggested_department, database) ==
    LET department == ResolveDepartment(suggested_department,
                                        root_suggest_department_from_category(category))
        employees == database.employees
        Find(step) == FindOne(employees, Hits(employees, step, category, department))
        s1 == Find("expertise_or_department")
        s2 == IF s1 = NoEmployee THEN Find("department") ELSE s1
        s3 == IF s2 = NoEmployee THEN Find("security_or_expert") ELSE s2
        lookups == <<"expertise_or_department">>
                   \o (IF s1 = NoEmployee THEN <<"department">> ELSE <<>>)
                   \o (IF s2 = NoEmployee THEN <<"security_or_expert">> ELSE <<>>)
    IN  IF ~database.connected \/ database.failing THEN Raise("employee_lookup")
        ELSE [kind |-> "ok",
              routed_to |-> IF s3 = NoEmployee THEN NoEmployee
                            ELSE [id |-> s3.id, department |-> s3.department],
              lookups |-> lookups,
              resolved |-> department]

(***************************************************************************)
(* process_batch_legacy (agents/escalation_agent.py): four parallel lists,  *)
(* given here by their lengths; categories may be absent.  Every zipped     *)
(* item makes one call of _check_with_firework, and one of                  *)
(* _route_to_employee when it is escalated.                                 *)
(***************************************************************************)
MaxLegacyLen == 2

\* len(questions) != len(answers) != len(confidence_scores) != len(categories):
\* a chained comparison, the conjunction of the three adjacent comparisons
LengthsRejected(questions, answers, confidence_scores, categories) ==
    /\ questions # answers
    /\ answers # confidence_scores
    /\ confidence_scores # categories

\* an HTTP 200 reply whose text is JSON but not an object (a list, a string)
NotAnObject == [ok |-> FALSE, parsed |-> [json_type |-> "array"]]

\* the single attempt of _check_with_firework of agents/escalation_agent.py:
\* whatever json.loads gives is returned
root_check_with_firework(confidence, category, threshold, attempt) ==
    IF attempt.ok THEN [decision |-> attempt.decision, calls |-> 1, fallback |-> FALSE]
    ELSE IF "parsed" \in DOMAIN attempt
    THEN [decision |-> attempt.parsed, calls |-> 1, fallback |-> FALSE]
    ELSE [decision |-> [requires_escalation |-> JsonBool(confidence < threshold),
                        reason |-> "Fallback",
                        department |-> root_suggest_department_from_category(category)],
          calls |-> 1, fallback |-> TRUE]

LegacyConfidences == {600, 1080}   \* 0.5, 0.9
LegacyAttempts == {Failed, NotAnObject} \cup {Decided(d) : d \in LLMDecisions}
LegacyItems == [confidence : LegacyConfidences, attempt : LegacyAttempts]

\* the body of the loop of process_batch_legacy for one zipped item
legacy_item(item, threshold, database) ==
    LET threshold_escalation == item.confidence < threshold
        fw == root_check_with_firework(item.confidence, None, threshold, item.attempt)
        requires_escalation ==
            threshold_escalation \/ Get(fw.decision, "requires_escalation", "false") = "true"
        route == IF requires_escalation
                 THEN root_route_to_employee(None, Get(fw.decision, "department", None),
                                             database)
                 ELSE [kind |-> "ok", routed_to |-> NoEmployee]
    IN  IF "json_type" \in DOMAIN fw.decision
        THEN [kind |-> "raise", error |-> "decision_type", check |-> fw]
        ELSE IF route.kind = "raise"
        THEN [kind |-> "raise", error |-> route.error, check |-> fw]
        ELSE [kind |-> "ok",
              requires_escalation |-> requires_escalation,
              routed_to |-> route.routed_to,
              check |-> fw]

\* process_batch_legacy on lists of the given lengths (categories_len is
\* ignored when categories is None), whose zipped items are `items`
process_batch_legacy(lens, items, threshold, database) ==
    LET categories_len == IF lens.has_categories THEN lens.categories ELSE lens.questions
        outs == [i \in DOMAIN items |-> legacy_item(items[i], threshold, database)]
        failed == {i \in DOMAIN items : outs[i].kind = "raise"}
        done == IF failed = {} THEN Len(items) ELSE First(failed)
        escalated == {i \in 1..done : outs[i].kind = "ok" /\ outs[i].requires_escalation}
        checks == [i \in 1..done |-> outs[i].check]
    IN  IF LengthsRejected(lens.questions, lens.answers, lens.confidence_scores,
                           categories_len)
        THEN [kind |-> "raise", error |-> "ValueError", firework_calls |-> 0,
              directory_calls |-> 0, items |-> <<>>, checks |-> <<>>]
        ELSE IF failed # {}
        THEN [kind |-> "raise", error |-> outs[done].error, firework_calls |-> done,
              directory_calls |-> Cardinality(escalated)
                                  + (IF outs[done].error = "employee_lookup" THEN 1 ELSE 0),
              items |-> items, checks |-> checks]
        ELSE [kind |-> "ok", total_questions |-> lens.questions,
              results |-> Len(items),
              escalations_required |-> Cardinality(escalated),
              firework_calls |-> done,
              directory_calls |-> Cardinality(escalated),
              items |-> items, checks |-> checks]

\* zip(questions, answers, confidence_scores, categories) stops at the shortest
ZipLen(lens) ==
    Min(Min(lens.questions, lens.answers),
        Min(lens.confidence_scores,
            IF lens.has_categories THEN lens.categories ELSE lens.questions))

LegacyDatabases ==
    { [connected |-> TRUE, failing |-> FALSE, employees |-> <<SecurityLead>>],
      [connected |-> FALSE, failing |-> FALSE, employees |-> <<>>] }

(***************************************************************************)
(* Routing study: either router is applied to any category, suggested       *)
(* department and employee directory within the bounds.                     *)
(***************************************************************************)
MaxEmployees == 2

SecurityAnalyst == [id |-> "e3", department |-> "Security", expertise_areas |-> {}]
Engineer == [id |-> "e4", department |-> "Engineering", expertise_areas |-> {}]
Employees == {SecurityLead, ComplianceLead, SecurityAnalyst, Engineer}

RouteCategories == {None, "", "encryption", "compliance", "Database Encryption", "logging"}
RouteDepartments == {None, "", "Compliance", "Engineering"}
RouteDatabases ==
    { [connected |-> FALSE, failing |-> FALSE, employees |-> <<>>] }
    \cup [connected : {TRUE}, failing : {FALSE},
          employees : SeqsUpTo(Employees, MaxEmployees)]

\* a faulty variant: the flag of the earlier stage is ignored
FlagIgnored(mode, answer) == FALSE

\* process_answers: an answer the earlier stage flagged is not sent to the LLM
AlreadyFlagged(mode, answer) ==
    mode = "process_answers" /\ answer.needs_escalation

\* a faulty variant: the verdict is the threshold comparison alone
ThresholdOnly(threshold_escalation, verdict) == JsonBool(threshold_escalation)

\* threshold_escalation or firework_decision.get("requires_escalation", False)
RequiresEscalation(threshold_escalation, verdict) ==
    IF threshold_escalation THEN "true" ELSE verdict

\* the body of the loops of process_answers and process_batch for one answer
escalate_answer(mode, answer, threshold, attempts, database) ==
    LET flagged == AlreadyFlagged(mode, answer)
        category == IF mode = "process_batch"
                    THEN extract_category_from_answer(answer)
                    ELSE answer.category
        threshold_escalation == BelowThreshold(answer.confidence_score, threshold)
        fw == IF flagged
              THEN [decision |->
                      [requires_escalation |-> "true",
                       reason |-> IF answer.escalation_reason # None
                                  THEN answer.escalation_reason
                                  ELSE "Flagged by Knowledge Agent",
                       department |-> suggest_department_from_category(category)],
                    calls |-> 0, fallback |-> FALSE]
              ELSE check_with_firework(answer.confidence_score, category,
                                       threshold, attempts)
        verdict == Get(fw.decision, "requires_escalation", "false")
        requires == IF flagged THEN "true"
                    ELSE RequiresEscalation(threshold_escalation, verdict)
        route == IF requires = "true"
                 THEN route_to_employee(category, Get(fw.decision, "department", None),
                                        database)
                 ELSE [kind |-> "ok", routed_to |-> NoEmployee]
    IN  IF route.kind = "raise" THEN route
        ELSE IF requires = "null" THEN Raise("result_validation")
        ELSE [kind |-> "ok",
              result |->
                [question_id |-> answer.question_id,
                 confidence_score |-> answer.confidence_score,
                 requires_escalation |-> (requires = "true"),
                 escalation_reason |->
                    IF requires = "true"
                    THEN Get(fw.decision, "reason", "Low confidence score")
                    ELSE None,
                 routed_to |-> route.routed_to,
                 department |-> IF route.routed_to # NoEmployee
                                THEN route.routed_to.department ELSE None,
                 category |-> category],
              verdict |-> IF fw.calls = 0 THEN "not consulted" ELSE verdict,
              calls |-> fw.calls]

(***************************************************************************)
(* The stages one question goes through, each with the values it hands to  *)
(* the next: _process_batch retrieves, cites and drafts, and process_answers *)
(* checks the answer and routes it.                                        *)
(***************************************************************************)
\* _process_batch: the documents given to the citation agent
docs_for_citation(kr, context_docs) ==
    IF kr.kind = "ok" /\ kr.context_documents # <<>>
    THEN kr.context_documents ELSE context_docs

\* _process_batch: the QuestionAnswer built from the two results
question_answer(question, citation_result, draft_result, threshold) ==
    LET needs_escalation == draft_result.confidence_score < threshold
    IN  [question_id |-> question.question_id,
         answer |-> draft_result.answer,
         confidence |-> draft_result.confidence,
         confidence_score |-> draft_result.confidence_score,
         citations |-> citation_result.citations,
         reasoning |-> draft_result.reasoning,
         needs_escalation |-> needs_escalation,
         escalation_reason |-> IF needs_escalation
                               THEN BandReason(draft_result.confidence_score)
                               ELSE None,
         category |-> question.category]

\* the flags _check_with_firework sets on the agent
SUCCESS_LOGGED == "_fireworks_success_logged"
WARNING_SHOWN == "_fireworks_warning_shown"

\* a faulty variant: once the warning was shown the models are not asked again
DecisionOnceWarned(flags, answer, threshold, attempts) ==
    IF answer.needs_escalation
    THEN [decision |->
            [requires_escalation |-> "true",
             reason |-> IF answer.escalation_reason # None
                        THEN answer.escalation_reason
                        ELSE "Flagged by Knowledge Agent",
             department |-> suggest_department_from_category(answer.category)],
          flags |-> flags]
    ELSE IF WARNING_SHOWN \in flags
    THEN [decision |-> FallbackDecision(answer.confidence_score, answer.category,
                                        threshold),
          flags |-> flags]
    ELSE LET fw == check_with_firework(answer.confidence_score, answer.category,
                                       threshold, attempts)
         IN  [decision |-> fw.decision,
              flags |-> flags \cup {IF fw.fallback THEN WARNING_SHOWN
                                    ELSE SUCCESS_LOGGED}]

\* process_answers: the decision for one answer, and the agent's flags after
\* it; an answer flagged by the earlier stage is not sent to the models, and
\* the flags decide only whether a line is printed
firework_decision(flags, answer, threshold, attempts) ==
    IF answer.needs_escalation
    THEN [decision |->
            [requires_escalation |-> "true",
             reason |-> IF answer.escalation_reason # None
                        THEN answer.escalation_reason
                        ELSE "Flagged by Knowledge Agent",
             department |-> suggest_department_from_category(answer.category)],
          flags |-> flags]
    ELSE LET fw == check_with_firework(answer.confidence_score, answer.category,
                                       threshold, attempts)
         IN  [decision |-> fw.decision,
              flags |-> flags \cup {IF fw.fallback THEN WARNING_SHOWN
                                    ELSE SUCCESS_LOGGED}]

\* process_answers: the routing and the EscalationResult of one answer
escalation_result(answer, decision, threshold, database) ==
    LET threshold_escalation == answer.confidence_score < threshold
        verdict == Get(decision, "requires_escalation", "false")
        requires == IF answer.needs_escalation \/ threshold_escalation
                    THEN "true" ELSE verdict
        route == IF requires = "true"
                 THEN route_to_employee(answer.category,
                                        Get(decision, "department", None), database)
                 ELSE [kind |-> "ok", routed_to |-> NoEmployee]
    IN  IF route.kind = "raise" THEN route
        ELSE IF requires = "null" THEN Raise("result_validation")
        ELSE [kind |-> "ok",
              result |->
                [question_id |-> answer.question_id,
                 confidence_score |-> answer.confidence_score,
                 requires_escalation |-> (requires = "true"),
                 escalation_reason |->
                    IF requires = "true"
                    THEN Get(decision, "reason", "Low confidence score")
                    ELSE None,
                 routed_to |-> route.routed_to,
                 department |-> IF route.routed_to # NoEmployee
                                THEN route.routed_to.department ELSE None,
                 category |-> answer.category]]

(***************************************************************************)
(* Scorer study: the evidence list is any list within the bounds, and the  *)
(* one action applies the scorer to it.                                    *)
(***************************************************************************)
Thresholds == {0, 120, 480, 600, 840, 1200}

kaVars == <<qa_library, kaPc, kaIn, kaResp, kaCalls>>
scoreVars == <<evidence, scPc, score, scAnswers, scNeeds>>
pipeVars == <<batch_size, run_escalation, orchPc, orchError, entry, request,
              batch_answers, all_batches, total_escalations, output,
              escIn, escResults, escVerdicts, escResponse, orchTrace>>
vars == <<confidence_threshold, evidence, scPc, score, scAnswers, scNeeds,
          qa_library, kaPc, kaIn, kaResp, kaCalls,
          batch_size, run_escalation, orchPc, orchError, entry, request,
          batch_answers, all_batches, total_escalations, output,
          escIn, escResults, escVerdicts, escResponse, orchTrace,
          kaVariant, learnQuestions, lastLearn, lookup,
          rtPc, rtIn, rtOut, lgPc, lgIn, lgOut, workers, agentFlags, directory>>
learnVars == <<kaVariant, learnQuestions, lastLearn, lookup>>
routeVars == <<rtPc, rtIn, rtOut>>
legacyVars == <<lgPc, lgIn, lgOut>>
workerVars == <<workers, agentFlags, directory>>

NoLearn == [kind |-> "none"]
NoLookup == [question |-> <<>>]

\* the learning study is not in use
LearnOff ==
    /\ kaVariant = "agents"
    /\ learnQuestions = {}
    /\ lastLearn = NoLearn
    /\ lookup = NoLookup

NoRoute == [router |-> "none"]
NoRouteInput == [category |-> None]

\* the routing study is not in use
RouteOff ==
    /\ rtPc = "off"
    /\ rtIn = NoRouteInput
    /\ rtOut = NoRoute

NoLegacyInput == [questions |-> 0]
NoLegacyOutput == [kind |-> "none", items |-> <<>>, checks |-> <<>>]

\* the legacy batch study is not in use
LegacyOff ==
    /\ lgPc = "off"
    /\ lgIn = NoLegacyInput
    /\ lgOut = NoLegacyOutput

\* the worker study is not in use
WorkersOff ==
    /\ workers = <<>>
    /\ agentFlags = {}
    /\ directory = DbUnused

NoOutput == [status |-> "none"]
NoEscalationResponse == [status |-> "none"]
NoInput == [questions |-> <<>>]
NoTrace ==
    [source |-> "none", verified_answer |-> None, calls |-> {}, candidates |-> <<>>,
     citations |-> <<>>, answer |-> None]

\* no request has been received
PipeRest ==
    /\ orchError = "none"
    /\ entry = "none"
    /\ request = NoInput
    /\ batch_answers = <<>>
    /\ all_batches = <<>>
    /\ total_escalations = 0
    /\ output = NoOutput
    /\ escIn = <<>>
    /\ escResults = <<>>
    /\ escVerdicts = <<>>
    /\ escResponse = NoEscalationResponse
    /\ orchTrace = NoTrace

\* the orchestrator is not part of the study
PipeOff ==
    /\ batch_size = 1
    /\ run_escalation = FALSE
    /\ orchPc = "off"
    /\ PipeRest


KaIdle ==
    /\ kaPc = "idle"
    /\ kaIn = NoReplies
    /\ kaResp = NoResponse
    /\ kaCalls = {}

ScoreIdle ==
    /\ evidence = <<>>
    /\ scPc = "off"
    /\ score = 0
    /\ scAnswers = FALSE
    /\ scNeeds = FALSE

InitScore ==
    /\ confidence_threshold = CONFIDENCE_THRESHOLD
    /\ evidence \in EvidenceLists
    /\ scPc = "ready"
    /\ score = 0
    /\ scAnswers = FALSE
    /\ scNeeds = FALSE
    /\ qa_library = <<>>
    /\ KaIdle
    /\ PipeOff
    /\ LearnOff
    /\ RouteOff
    /\ LegacyOff
    /\ WorkersOff

\* Step 4 of answer_question
Score ==
    /\ scPc = "ready"
    /\ scPc' = "scored"
    /\ score' = calculate_confidence(evidence)
    /\ UNCHANGED <<confidence_threshold, evidence, scAnswers, scNeeds, kaVars, pipeVars, learnVars, routeVars, legacyVars, workerVars>>

\* Steps 5 and 6 of answer_question, for either verdict of the judge
Decide ==
    /\ scPc = "scored"
    /\ \E answers_question \in BOOLEAN :
          /\ scAnswers' = answers_question
          /\ scNeeds' = BelowThreshold(AdjustConfidence(score, answers_question),
                                       confidence_threshold)
    /\ scPc' = "decided"
    /\ UNCHANGED <<confidence_threshold, evidence, score, kaVars, pipeVars, learnVars, routeVars, legacyVars, workerVars>>

NextScore == Score \/ Decide

SpecScore == InitScore /\ [][NextScore]_vars

(***************************************************************************)
(* Knowledge-agent study: an agent constructed with any threshold over any *)
(* seeded store answers questions one call at a time.                      *)
(***************************************************************************)
InitKA ==
    /\ confidence_threshold \in Thresholds
    /\ qa_library \in LibrarySeeds
    /\ KaIdle
    /\ ScoreIdle
    /\ PipeOff
    /\ LearnOff
    /\ RouteOff
    /\ LegacyOff
    /\ WorkersOff

AnswerQuestion ==
    /\ kaPc = "idle"
    /\ \E q \in Questions, early \in EarlyReplies(qa_library) :
          LET probe == answer_question(qa_library, confidence_threshold, q,
                                       Replies(early, NotReached))
          IN  \E late \in (IF "chunk_search" \in probe.calls THEN LateReplies
                           ELSE {NotReached}) :
                 LET in == Replies(early, late)
                     out == answer_question(qa_library, confidence_threshold, q, in)
                 IN  /\ kaPc' = out.pc
                     /\ kaResp' = out.resp
                     /\ kaCalls' = out.calls
                     /\ kaIn' = [question |-> q, replies |-> in]
    /\ UNCHANGED <<confidence_threshold, qa_library, scoreVars, pipeVars, learnVars, routeVars, legacyVars, workerVars>>

\* the caller takes the response (or the exception); the agent is idle again
KaReset ==
    /\ kaPc \in {"returned", "raised"}
    /\ kaPc' = "idle"
    /\ kaIn' = NoReplies
    /\ kaResp' = NoResponse
    /\ kaCalls' = {}
    /\ UNCHANGED <<confidence_threshold, qa_library, scoreVars, pipeVars, learnVars, routeVars, legacyVars, workerVars>>

NextKA == AnswerQuestion \/ KaReset

SpecKA == InitKA /\ [][NextKA]_vars

(***************************************************************************)
(* The orchestrated pipeline as a state machine: one step per question of   *)
(* process_questionnaire (each is a sequence of awaited calls), then one     *)
(* step per answer of process_answers.                                      *)
(***************************************************************************)
BuildOutput(total_questions, size, batches, escalations) ==
    [total_questions |-> total_questions,
     total_batches |-> CeilDiv(total_questions, size),
     batches |-> batches,
     escalations_required |-> escalations,
     status |-> "completed"]

CountRequired(results) ==
    Cardinality({i \in 1..Len(results) : results[i].requires_escalation})

Init ==
    /\ confidence_threshold \in OrchThresholds
    /\ batch_size \in BatchSizes
    /\ run_escalation \in BOOLEAN
    /\ orchPc = "idle"
    /\ PipeRest
    /\ qa_library = <<>>
    /\ KaIdle
    /\ ScoreIdle
    /\ LearnOff
    /\ RouteOff
    /\ LegacyOff
    /\ WorkersOff

\* POST /questionnaire/process and /questionnaire/process-with-escalation
ReceiveQuestionnaire ==
    /\ orchPc = "idle"
    /\ entry = "none"
    /\ \E e \in {"process_questionnaire", "process_with_escalation"},
          input \in QuestionnaireInputs :
          /\ entry' = e
          /\ request' = input
          /\ IF Len(input.questions) = 0
             THEN /\ output' = BuildOutput(0, batch_size, <<>>, 0)
                  /\ orchPc' = "finished"
             ELSE /\ output' = output
                  /\ orchPc' = "running"
    /\ UNCHANGED <<confidence_threshold, batch_size, run_escalation, orchError,
                   batch_answers, all_batches, total_escalations,
                   escIn, escResults, escVerdicts, escResponse, orchTrace, kaVars, scoreVars, learnVars, routeVars, legacyVars, workerVars>>

\* one question of the current batch; the last question of a batch closes
\* the batch, and the last question of the questionnaire builds the output
ProcessQuestion ==
    /\ orchPc = "running"
    /\ LET questions == request.questions
           total_questions == Len(questions)
           start_idx == Len(all_batches) * batch_size
           end_idx == Min(start_idx + batch_size, total_questions)
           i == start_idx + Len(batch_answers) + 1
       IN  \E kr \in KnowledgeReplies, cr \in CitationReplies, dr \in DraftReplies :
             LET out == process_question(questions[i], request.context_documents,
                                         confidence_threshold, kr, cr, dr)
                 answers == Append(batch_answers, out.answer)
                 batches == Append(all_batches,
                                   [batch_number |-> Len(all_batches) + 1,
                                    answers |-> answers])
                 escalations == total_escalations + CountFlagged(answers)
                 result == BuildOutput(total_questions, batch_size, batches, escalations)
                 escalate == /\ entry = "process_with_escalation"
                             /\ run_escalation
                             /\ result.escalations_required > 0
             IN  IF out.kind = "raise"
                 THEN /\ orchPc' = "failed"
                      /\ orchError' = out.error
                      /\ orchTrace' = NoTrace
                      /\ batch_answers' = <<>>
                      /\ all_batches' = <<>>
                      /\ total_escalations' = 0
                      /\ UNCHANGED <<output, escIn>>
                 ELSE IF i < end_idx
                 THEN /\ batch_answers' = answers
                      /\ orchTrace' = out.trace
                      /\ UNCHANGED <<orchPc, orchError, all_batches,
                                     total_escalations, output, escIn>>
                 ELSE /\ batch_answers' = <<>>
                      /\ orchTrace' = out.trace
                      /\ all_batches' = batches
                      /\ total_escalations' = escalations
                      /\ orchError' = orchError
                      /\ IF i < total_questions
                         THEN UNCHANGED <<orchPc, output, escIn>>
                         ELSE /\ output' = result
                              /\ orchPc' = IF escalate THEN "escalating" ELSE "finished"
                              /\ escIn' = IF escalate THEN Flatten(batches) ELSE <<>>
    /\ UNCHANGED <<confidence_threshold, batch_size, run_escalation, entry, request,
                   escResults, escVerdicts, escResponse,
                   kaVars, scoreVars, learnVars, routeVars, legacyVars, workerVars>>

\* one answer of process_answers or process_batch; the last one builds the
\* EscalationResponse
EscalateAnswer ==
    /\ orchPc = "escalating"
    /\ LET mode == IF entry = "process_batch" THEN "process_batch" ELSE "process_answers"
           i == Len(escResults) + 1
           answer == escIn[i]
       IN  \E attempts \in (IF AlreadyFlagged(mode, answer) THEN {<<>>}
                            ELSE FireworkAttempts) :
             LET probe == escalate_answer(mode, answer, confidence_threshold,
                                          attempts, DbUnused)
             IN  \E database \in (IF probe.kind = "ok" /\ probe.result.requires_escalation
                                  THEN Databases ELSE {DbUnused}) :
                   LET out == escalate_answer(mode, answer, confidence_threshold,
                                              attempts, database)
                       results == Append(escResults, out.result)
                   IN  IF out.kind = "raise"
                       THEN /\ orchPc' = "failed"
                            /\ orchError' = out.error
                            /\ escResults' = <<>>
                            /\ escVerdicts' = <<>>
                            /\ escResponse' = escResponse
                       ELSE /\ escResults' = results
                            /\ escVerdicts' = Append(escVerdicts, out.verdict)
                            /\ orchError' = orchError
                            /\ IF i < Len(escIn)
                               THEN UNCHANGED <<orchPc, escResponse>>
                               ELSE /\ orchPc' = "finished"
                                    /\ escResponse' =
                                         [total_questions |-> Len(escIn),
                                          escalations_required |-> CountRequired(results),
                                          results |-> results,
                                          status |-> "completed"]
    /\ UNCHANGED <<confidence_threshold, batch_size, run_escalation, entry, request,
                   batch_answers, all_batches, total_escalations, output, escIn,
                   orchTrace, kaVars, scoreVars, learnVars, routeVars, legacyVars, workerVars>>

Next == ReceiveQuestionnaire \/ ProcessQuestion \/ EscalateAnswer

Spec == Init /\ [][Next]_vars

(***************************************************************************)
(* Escalation-agent study: the agent is handed answers directly, either     *)
(* drafted answers (process_answers) or an EscalationRequest                *)
(* (process_batch).                                                        *)
(***************************************************************************)
EscThresholds == {ORCHESTRATOR_THRESHOLD, CONFIDENCE_THRESHOLD}
EscScores == {600, 1200}

\* QuestionAnswer objects a caller can hand to process_answers
DraftedAnswers ==
    { [question_id |-> "q", answer |-> "drafted", confidence |-> "medium",
       confidence_score |-> s, citations |-> <<>>, reasoning |-> "r",
       needs_escalation |-> f,
       escalation_reason |-> IF f /\ s < SCORE_FIELD_MAX THEN "Low confidence" ELSE None,
       category |-> c] :
      s \in EscScores, f \in BOOLEAN, c \in {None, "compliance"} }

\* AnswerItem objects of an EscalationRequest
AnswerItems ==
    { [question_id |-> "q", question_text |-> q, answer |-> a,
       confidence_score |-> s] :
      q \in ItemQuestions, a \in ItemAnswers, s \in EscScores }

InitEscalation ==
    /\ confidence_threshold \in EscThresholds
    /\ batch_size = 1
    /\ run_escalation = TRUE
    /\ orchPc = "idle"
    /\ PipeRest
    /\ qa_library = <<>>
    /\ KaIdle
    /\ ScoreIdle
    /\ LearnOff
    /\ RouteOff
    /\ LegacyOff
    /\ WorkersOff

ReceiveList(mode, answers) ==
    /\ orchPc = "idle"
    /\ entry = "none"
    /\ entry' = mode
    /\ escIn' = answers
    /\ IF answers = <<>>
       THEN /\ orchPc' = "finished"
            /\ escResponse' = [total_questions |-> 0, escalations_required |-> 0,
                               results |-> <<>>, status |-> "completed"]
       ELSE /\ orchPc' = "escalating"
            /\ escResponse' = escResponse
    /\ UNCHANGED <<confidence_threshold, batch_size, run_escalation, orchError, request,
                   batch_answers, all_batches, total_escalations, output,
                   escResults, escVerdicts, orchTrace, kaVars, scoreVars, learnVars, routeVars, legacyVars, workerVars>>

\* EscalationAgent.process_answers called with one batch of drafted answers
ReceiveAnswers ==
    \E answers \in SeqsUpTo(DraftedAnswers, MaxAnswers) :
        ReceiveList("process_answers", answers)

\* EscalationAgent.process_batch called with an EscalationRequest
ReceiveEscalationRequest ==
    \E items \in SeqsUpTo(AnswerItems, MaxAnswers) :
        ReceiveList("process_batch", items)

NextEscalation == ReceiveAnswers \/ ReceiveEscalationRequest \/ EscalateAnswer

SpecEscalation == InitEscalation /\ [][NextEscalation]_vars

(***************************************************************************)
(* Learning study: over a store that starts empty, approved answers are     *)
(* promoted and questions are looked up, in any order, by either agent.     *)
(***************************************************************************)
InitLearn ==
    /\ confidence_threshold = CONFIDENCE_THRESHOLD
    /\ kaVariant \in Variants
    /\ learnQuestions \in LearnQuestions
    /\ qa_library = <<>>
    /\ lastLearn = NoLearn
    /\ lookup = NoLookup
    /\ kaPc = "idle"
    /\ kaIn = NoReplies
    /\ kaResp = NoResponse
    /\ kaCalls = {}
    /\ ScoreIdle
    /\ PipeOff
    /\ RouteOff
    /\ LegacyOff
    /\ WorkersOff

\* KnowledgeAgent.learn_from_feedback
LearnFromFeedback ==
    /\ \E q \in learnQuestions, a \in ApprovedAnswers, reply \in NormRepliesOf(kaVariant),
          up \in {<<TRUE, TRUE>>, <<FALSE, TRUE>>, <<TRUE, FALSE>>} :
          LET out == learn_from_feedback(qa_library, kaVariant, q, a, "s",
                                         reply, up[1], up[2])
          IN  IF out.kind = "raise"
              THEN /\ lastLearn' = [kind |-> "raised", question |-> q, answer |-> a]
                   /\ qa_library' = qa_library
              ELSE /\ lastLearn' = [kind |-> "learned", question |-> q, answer |-> a,
                                    fingerprint |-> out.fingerprint,
                                    category |-> out.category]
                   /\ qa_library' = out.lib
    /\ lookup' = NoLookup
    /\ UNCHANGED <<confidence_threshold, kaVariant, learnQuestions, kaPc, kaIn, kaResp, kaCalls,
                   scoreVars, pipeVars, routeVars, legacyVars, workerVars>>

\* the cache lookup of a question; `after` is the promotion it immediately
\* follows, if it follows one
CacheLookup ==
    /\ \E q \in learnQuestions, reply \in NormRepliesOf(kaVariant), store_up \in BOOLEAN :
          LET probe == cache_lookup(qa_library, kaVariant, q, reply, store_up,
                                    [kind |-> "empty", top |-> 0, score |-> 0])
          IN  \E sem \in (IF "qa_semantic_search" \in probe.calls
                          THEN SemReplies(qa_library)
                          ELSE {[kind |-> "empty", top |-> 0, score |-> 0]}) :
                lookup' = [question |-> q, classifier |-> reply.kind,
                           store_up |-> store_up, sem |-> sem,
                           after |-> lastLearn,
                           out |-> cache_lookup(qa_library, kaVariant, q, reply,
                                                store_up, sem)]
    /\ lastLearn' = NoLearn
    /\ UNCHANGED <<confidence_threshold, kaVariant, learnQuestions, qa_library, kaPc, kaIn, kaResp,
                   kaCalls, scoreVars, pipeVars, routeVars, legacyVars, workerVars>>

NextLearn == LearnFromFeedback \/ CacheLookup

SpecLearn == InitLearn /\ [][NextLearn]_vars

InitRoute ==
    /\ confidence_threshold = CONFIDENCE_THRESHOLD
    /\ rtPc = "ready"
    /\ rtIn \in [category : RouteCategories, suggested_department : RouteDepartments,
                 database : RouteDatabases]
    /\ rtOut = NoRoute
    /\ qa_library = <<>>
    /\ KaIdle
    /\ ScoreIdle
    /\ PipeOff
    /\ LearnOff
    /\ LegacyOff
    /\ WorkersOff

\* _route_to_employee of src/agents/escalation_agent.py
Route ==
    /\ rtPc = "ready"
    /\ rtPc' = "routed"
    /\ rtOut' = [router |-> "src",
                 out |-> route_to_employee(rtIn.category, rtIn.suggested_department,
                                           rtIn.database)]
    /\ UNCHANGED <<confidence_threshold, rtIn, kaVars, scoreVars, pipeVars, learnVars, legacyVars, workerVars>>

\* _route_to_employee of agents/escalation_agent.py
RootRoute ==
    /\ rtPc = "ready"
    /\ rtPc' = "routed"
    /\ rtOut' = [router |-> "agents",
                 out |-> root_route_to_employee(rtIn.category, rtIn.suggested_department,
                                                rtIn.database)]
    /\ UNCHANGED <<confidence_threshold, rtIn, kaVars, scoreVars, pipeVars, learnVars, legacyVars, workerVars>>

NextRoute == Route \/ RootRoute

SpecRoute == InitRoute /\ [][NextRoute]_vars

(***************************************************************************)
(* Legacy batch study: process_batch_legacy on lists of any lengths within  *)
(* the bound.                                                               *)
(***************************************************************************)
InitLegacy ==
    /\ confidence_threshold = CONFIDENCE_THRESHOLD
    /\ lgPc = "ready"
    /\ lgIn \in [questions : 0..MaxLegacyLen, answers : 0..MaxLegacyLen,
                 confidence_scores : 0..MaxLegacyLen,
                 has_categories : BOOLEAN, categories : 0..MaxLegacyLen]
    /\ ~lgIn.has_categories => lgIn.categories = 0
    /\ lgOut = NoLegacyOutput
    /\ qa_library = <<>>
    /\ KaIdle
    /\ ScoreIdle
    /\ PipeOff
    /\ LearnOff
    /\ RouteOff
    /\ WorkersOff

\* EscalationAgent.process_batch_legacy
ProcessBatchLegacy ==
    /\ lgPc = "ready"
    /\ lgPc' = "returned"
    /\ \E items \in [1..ZipLen(lgIn) -> LegacyItems], database \in LegacyDatabases :
          lgOut' = process_batch_legacy(lgIn, items, confidence_threshold, database)
    /\ UNCHANGED <<confidence_threshold, lgIn, kaVars, scoreVars, pipeVars,
                   learnVars, routeVars, workerVars>>

NextLegacy == ProcessBatchLegacy

SpecLegacy == InitLegacy /\ [][NextLegacy]_vars

(***************************************************************************)
(* Worker study: the questions of one batch are worked on side by side.    *)
(* Each question has its collaborators' replies fixed at the start; the     *)
(* stages of different questions run in any order over the shared agent     *)
(* flags and the shared directory.                                          *)
(***************************************************************************)
MaxWorkers == 2

ContextDocs == <<"ctx_doc">>

AllFailed == [i \in 1..MODEL_COUNT |-> Failed]

\* what the collaborators reply for one question
WorkerReplies ==
    { [kr |-> kr, cr |-> cr, dr |-> dr, attempts |-> attempts] :
        kr \in {[kind |-> "ok", source |-> "vector_search",
                 context_documents |-> <<"kb_doc">>]},
        cr \in {Json([citations |-> <<[doc_id |-> "ctx_doc", doc_title |-> "t",
                                       relevant_excerpt |-> "x",
                                       relevance_score |-> 1]>>])},
        dr \in {Json([answer |-> "drafted", confidence |-> "HIGH",
                      confidence_score |-> 1200, reasoning |-> "r"]),
                Json([answer |-> "drafted", confidence |-> "Medium",
                      confidence_score |-> 600, reasoning |-> "r"])},
        attempts \in {<<Decided([requires_escalation |-> "true",
                                 reason |-> "llm reason",
                                 department |-> "Compliance"])>>,
                      <<Failed, Failed,
                        Decided([requires_escalation |-> "false",
                                 reason |-> "llm reason", department |-> None])>>,
                      AllFailed} }
    \cup { [kr |-> [kind |-> "raise"], cr |-> HttpError, dr |-> HttpError,
            attempts |-> AllFailed] }

WorkerDirectories ==
    { [connected |-> TRUE, failing |-> FALSE, employees |-> <<SecurityLead, ComplianceLead>>],
      [connected |-> TRUE, failing |-> TRUE, employees |-> <<>>] }

InitWorkers ==
    /\ confidence_threshold = CONFIDENCE_THRESHOLD
    /\ \E n \in 1..MaxWorkers :
          workers \in [1..n -> [pc : {"retrieve"}, in : WorkerReplies,
                                local : {[stage |-> "start"]}]]
    /\ agentFlags = {}
    /\ directory \in WorkerDirectories
    /\ qa_library = <<>>
    /\ KaIdle
    /\ ScoreIdle
    /\ PipeOff
    /\ LearnOff
    /\ RouteOff
    /\ LegacyOff

WorkerStep(w, pc, local) ==
    workers' = [workers EXCEPT ![w] = [pc |-> pc, in |-> workers[w].in, local |-> local]]

WorkerFailed(w, error) == WorkerStep(w, "failed", [error |-> error])

WorkerFrame ==
    UNCHANGED <<confidence_threshold, directory, kaVars, scoreVars, pipeVars,
                learnVars, routeVars, legacyVars>>

\* knowledge_agent.retrieve; its exception is caught
Retrieve ==
    /\ \E w \in DOMAIN workers :
          /\ workers[w].pc = "retrieve"
          /\ WorkerStep(w, "cite",
                        [docs |-> docs_for_citation(workers[w].in.kr, ContextDocs)])
    /\ UNCHANGED agentFlags
    /\ WorkerFrame

\* citation_agent.find_citations
Cite ==
    /\ \E w \in DOMAIN workers :
          /\ workers[w].pc = "cite"
          /\ LET citation_result == find_citations(QuestionOf(w), workers[w].local.docs,
                                                   workers[w].in.cr)
             IN  IF citation_result.kind = "raise"
                 THEN WorkerFailed(w, citation_result.error)
                 ELSE WorkerStep(w, "draft", [citation_result |-> citation_result])
    /\ UNCHANGED agentFlags
    /\ WorkerFrame

\* drafting_agent.draft_answer and the QuestionAnswer built from it
Draft ==
    /\ \E w \in DOMAIN workers :
          /\ workers[w].pc = "draft"
          /\ LET citation_result == workers[w].local.citation_result
                 draft_result == DraftingAgent_draft_answer(QuestionOf(w), citation_result,
                                                            workers[w].in.dr)
             IN  IF draft_result.kind = "raise"
                 THEN WorkerFailed(w, draft_result.error)
                 ELSE IF draft_result.confidence_score > SCORE_FIELD_MAX
                 THEN WorkerFailed(w, "answer_validation")
                 ELSE WorkerStep(w, "check",
                                 [answer |-> question_answer(QuestionOf(w), citation_result,
                                                             draft_result,
                                                             confidence_threshold)])
    /\ UNCHANGED agentFlags
    /\ WorkerFrame

\* _check_with_firework, unless the answer is flagged already
Check ==
    /\ \E w \in DOMAIN workers :
          /\ workers[w].pc = "check"
          /\ LET answer == workers[w].local.answer
                 fw == firework_decision(agentFlags, answer, confidence_threshold,
                                         workers[w].in.attempts)
             IN  /\ WorkerStep(w, "route", [answer |-> answer, decision |-> fw.decision])
                 /\ agentFlags' = fw.flags
    /\ WorkerFrame

\* _route_to_employee and the EscalationResult
RouteAnswer ==
    /\ \E w \in DOMAIN workers :
          /\ workers[w].pc = "route"
          /\ LET out == escalation_result(workers[w].local.answer,
                                          workers[w].local.decision,
                                          confidence_threshold, directory)
             IN  IF out.kind = "raise"
                 THEN WorkerFailed(w, out.error)
                 ELSE WorkerStep(w, "done", [answer |-> workers[w].local.answer,
                                             result |-> out.result])
    /\ UNCHANGED agentFlags
    /\ WorkerFrame

NextWorkers == Retrieve \/ Cite \/ Draft \/ Check \/ RouteAnswer

SpecWorkers == InitWorkers /\ [][NextWorkers]_vars

(***************************************************************************)
(* Claims about the scorer (SpecScore).                                    *)
(***************************************************************************)

\* C8: for every evidence list the scorer returns a value in [0, 0.98], and
\* exactly 0.0 for the empty list.
C8_ScoreWithinRange ==
    scPc # "ready" =>
        /\ 0 <= score
        /\ score <= 1176
        /\ (evidence = <<>> => score = 0)

\* the cap is what decides: three SOC2 chunks with similarity 1.0 would be 1.0
C8_Witness ==
    /\ scPc = "scored"
    /\ Len(evidence) = 3
    /\ \A i \in 1..3 : evidence[i] = [similarity_score |-> 100, doc_type |-> "soc2"]
    /\ score = 1176

\* The formula as the specification words it, multiplied by k = min(n, 3) to
\* stay in the integers:  k * 1200 * (0.5*top + 0.3*mean + 0.2*min(n/3, 1)).
C9_Weight(t) ==
    IF t = "soc2" THEN 10 ELSE IF t = "policy" THEN 8 ELSE IF t = "procedure" THEN 7 ELSE 5

C9_TimesK(ev) ==
    LET k == IF Len(ev) < 3 THEN Len(ev) ELSE 3
        w(i) == IF i <= k THEN C9_Weight(ev[i].doc_type) ELSE 0
    IN  k * 6 * ev[1].similarity_score + 36 * (w(1) + w(2) + w(3)) + 80 * k * k

C9_K(ev) == IF Len(ev) < 3 THEN Len(ev) ELSE 3

\* C9 (amended): for non-empty evidence the score is
\* min(0.5*top + 0.3*(mean authority of the first min(n,3) items) +
\* 0.2*min(n/3, 1), 0.98); three policy documents whose top item has
\* similarity 0.9 give 0.89, and with threshold 0.7 and judge = "answers"
\* the decision is not to escalate.
C9_FormulaAndPolicyExample ==
    (scPc # "ready" /\ evidence # <<>>) =>
        /\ IF C9_TimesK(evidence) >= 1176 * C9_K(evidence)
           THEN score = 1176
           ELSE score * C9_K(evidence) = C9_TimesK(evidence)
        /\ ( /\ Len(evidence) = 3
             /\ evidence[1].similarity_score = 90
             /\ \A i \in 1..3 : evidence[i].doc_type = "policy" )
           => /\ score = 1068
              /\ (scPc = "decided" /\ scAnswers) => ~scNeeds

C9_Witness ==
    /\ scPc = "decided"
    /\ scAnswers
    /\ Len(evidence) = 3
    /\ evidence[1].similarity_score = 90
    /\ \A i \in 1..3 : evidence[i].doc_type = "policy"
    /\ score = 1068
    /\ ~scNeeds

\* C9 as first stated: any three items whose top item is a policy document
\* with similarity 0.9 give 0.89.
C9_AnyThreeWithPolicyOnTop ==
    ( /\ scPc # "ready"
      /\ Len(evidence) = 3
      /\ evidence[1] = [similarity_score |-> 90, doc_type |-> "policy"] )
    => score = 1068

(***************************************************************************)
(* Claims about KnowledgeAgent.answer_question (SpecKA).                   *)
(***************************************************************************)
KaJudged == kaPc # "idle" /\ "judge_llm" \in kaCalls
KaEvidence == kaIn.replies.evidence
KaJudgeSaidAnswers ==
    KaEvidence # <<>> /\ kaIn.replies.judge \in {"ANSWERS: x", "answers: x"}
KaFromRetrieval == kaPc = "returned" /\ kaResp.source_type # "qa_library"

\* C10: when the judge returns answers = false the confidence used for the
\* escalation decision and reported in the response is raw_score * 0.5, which is
\* at most raw_score; when it returns answers = true it is raw_score unchanged.
C10_JudgePenalty ==
    KaFromRetrieval =>
        LET raw == calculate_confidence(KaEvidence)
        IN  /\ KaJudgeSaidAnswers => kaResp.confidence = raw
            /\ ~KaJudgeSaidAnswers =>
                  (2 * kaResp.confidence = raw /\ kaResp.confidence <= raw)
            /\ kaResp.needs_escalation = (kaResp.confidence < confidence_threshold)

\* raw 0.98 judged "related": 0.49 is reported and, under 0.7, escalated
C10_Witness ==
    /\ KaFromRetrieval
    /\ kaIn.replies.judge = "RELATED: x"
    /\ calculate_confidence(KaEvidence) = 1176
    /\ kaResp.confidence = 588
    /\ kaResp.needs_escalation

\* C2: whenever the judge returns "related" the response has
\* needs_escalation = true, whatever the raw score and the threshold.
C2_RelatedAlwaysEscalates ==
    (kaPc = "returned" /\ KaJudged /\ ~KaJudgeSaidAnswers) => kaResp.needs_escalation

\* C5: when the judge's call fails, answer_question returns a response whose
\* confidence is raw_score * 0.5.
C5_JudgeFailureIsPenalised ==
    (KaJudged /\ kaIn.replies.judge = "raise") =>
        /\ kaPc = "returned"
        /\ 2 * kaResp.confidence = calculate_confidence(KaEvidence)

(***************************************************************************)
(* Claims about the escalation agent (SpecEscalation).                     *)
(***************************************************************************)
EscFromAnswers == entry = "process_answers"

\* C1: in process_answers and process_batch the result of every answer has
\* requires_escalation true if and only if its confidence_score is below the
\* threshold, or the decision _check_with_firework returned carries
\* requires_escalation = true, or (process_answers only) the incoming answer
\* carries needs_escalation = true; a decision of false never suppresses a
\* below-threshold escalation.
C1_RequiresEscalationIff ==
    /\ Len(escResults) = Len(escVerdicts)
    /\ \A i \in 1..Len(escResults) :
          /\ escResults[i].requires_escalation
               <=> \/ escIn[i].confidence_score < confidence_threshold
                   \/ escVerdicts[i] = "true"
                   \/ (EscFromAnswers /\ escIn[i].needs_escalation)
          /\ (escVerdicts[i] = "false"
                /\ escIn[i].confidence_score < confidence_threshold)
               => escResults[i].requires_escalation

\* a finished process_batch call of two answers: the first escalated on the
\* LLM's decision alone, the second escalated by the threshold against an LLM
\* decision of false
C1_Witness ==
    /\ orchPc = "finished"
    /\ entry = "process_batch"
    /\ Len(escResponse.results) = 2
    /\ escIn[1].confidence_score >= confidence_threshold
    /\ escVerdicts[1] = "true"
    /\ escResults[1].requires_escalation
    /\ escIn[2].confidence_score < confidence_threshold
    /\ escVerdicts[2] = "false"
    /\ escResults[2].requires_escalation

(***************************************************************************)
(* Claims about the orchestrated pipeline (Spec).                          *)
(***************************************************************************)
WithEscalation == entry = "process_with_escalation"
Responded == orchPc = "finished" /\ escResponse # NoEscalationResponse
OutputAnswers == IF output = NoOutput THEN <<>> ELSE Flatten(output.batches)
ProducedAnswers == Flatten(all_batches) \o batch_answers

\* C3: in a run of process_with_escalation every answer the orchestrator
\* produced with needs_escalation = true has, at the same position of the
\* escalation results, a result for the same question with
\* requires_escalation = true and the LLM not consulted; the
\* EscalationResponse has a result for every answer and its
\* escalations_required is at least that of the QuestionnaireOutput; and
\* with the escalation agent enabled a run that flagged an answer returns an
\* EscalationResponse.
C3_FlagNeverOverridden ==
    WithEscalation =>
      /\ \A i \in 1..Len(escResults) :
            OutputAnswers[i].needs_escalation =>
              /\ escResults[i].question_id = OutputAnswers[i].question_id
              /\ escResults[i].requires_escalation
              /\ escVerdicts[i] = "not consulted"
      /\ Responded =>
            /\ Len(escResponse.results) = Len(OutputAnswers)
            /\ escResponse.results = escResults
            /\ escResponse.escalations_required >= output.escalations_required
      /\ (orchPc = "finished" /\ run_escalation /\ output.escalations_required > 0)
            => Responded

\* a returned EscalationResponse over a flagged answer and an unflagged one
\* that the LLM's decision escalated
C3_Witness ==
    /\ WithEscalation
    /\ Responded
    /\ Len(OutputAnswers) = 2
    /\ OutputAnswers[1].needs_escalation
    /\ escResults[1].requires_escalation
    /\ ~OutputAnswers[2].needs_escalation
    /\ escVerdicts[2] = "true"
    /\ escResponse.escalations_required > output.escalations_required

\* C4: the failure of an external call made for one question does not abort
\* process_questionnaire, which returns one answer for every question.
C4_ExternalFailureNeverAborts ==
    /\ ~(orchPc = "failed" /\ orchError \in {"citation_http", "draft_http"})
    /\ output # NoOutput => Len(OutputAnswers) = Len(request.questions)

\* C6: an answer drafted from unparseable drafter output has confidence_score
\* 0.1, needs_escalation = true whatever the threshold, and a reasoning that
\* records the parse failure; and structurally wrong LLM output (unparseable,
\* or parseable without the expected fields) lets no exception escape.
C6_MalformedDraftEscalates ==
    /\ \A i \in 1..Len(ProducedAnswers) :
          ProducedAnswers[i].answer = "Unable to parse response" =>
            /\ ProducedAnswers[i].confidence_score = PARSE_ERROR_CONFIDENCE
            /\ ProducedAnswers[i].reasoning = "JSON parse error"
            /\ ProducedAnswers[i].needs_escalation
    /\ ~(orchPc = "failed" /\ orchError \in {"draft_shape", "citation_shape"})

\* C7: no answer the orchestrator returns has a confidence_score outside
\* [0, 0.99].
C7_ConfidenceAtMost099 ==
    \A i \in 1..Len(OutputAnswers) :
        /\ OutputAnswers[i].confidence_score >= 0
        /\ OutputAnswers[i].confidence_score <= QA_CONFIDENCE_CAP

(***************************************************************************)
(* Claims about the verified-answer store (SpecLearn).                      *)
(***************************************************************************)
Looked == lookup # NoLookup
LookupReturned == Looked /\ lookup.out.kind \in {"match", "miss"}
LookupMatched == Looked /\ lookup.out.kind = "match"
SemanticIssued == Looked /\ "qa_semantic_search" \in lookup.out.calls
StoredExactly == ExactMatches(qa_library, lookup.out.fingerprint) # {}

\* C11: _check_qa_library returns a record only if its stored fingerprint
\* equals the query fingerprint, or it is the top semantic hit with a
\* similarity strictly above 0.85; the exact match takes precedence, the
\* semantic search is issued only after an exact miss, and a top hit
\* scoring 0.85 or lower is rejected.
C11_ExactOrAboveThreshold ==
    /\ LookupMatched =>
         \/ /\ lookup.out.record.question_fingerprint = lookup.out.fingerprint
            /\ ~SemanticIssued
         \/ /\ SemanticIssued
            /\ lookup.sem.kind = "hit"
            /\ lookup.sem.score > SEMANTIC_THRESHOLD
            /\ lookup.out.record = qa_library[lookup.sem.top]
    /\ (LookupReturned /\ StoredExactly) =>
         /\ LookupMatched
         /\ lookup.out.record.question_fingerprint = lookup.out.fingerprint
    /\ SemanticIssued => ~StoredExactly
    /\ (SemanticIssued /\ lookup.sem.kind = "hit"
          /\ lookup.sem.score <= SEMANTIC_THRESHOLD) => lookup.out.kind = "miss"

\* a semantic hit is accepted after an exact miss
C11_Witness ==
    /\ LookupMatched
    /\ SemanticIssued
    /\ lookup.sem.score = 1032
    /\ lookup.out.record.question_fingerprint # lookup.out.fingerprint

(***************************************************************************)
(* Claims about the cache hit in the orchestrated pipeline (Spec).          *)
(***************************************************************************)
CacheHit == orchTrace.source = "qa_library"

\* C12: on a cache hit the pipeline responds with the verified answer
\* without invoking any later stage (citation extractor, drafter): the
\* returned answer text equals the cached record's answer.
C12_CacheHitShortCircuits ==
    CacheHit =>
        /\ orchTrace.calls \cap {"find_citations", "draft_answer"} = {}
        /\ orchTrace.answer = orchTrace.verified_answer

NormalizerFailed ==
    /\ Looked
    /\ lookup.out.kind = "raise"
    /\ lookup.out.failed \in {"normalizer", "fingerprint_key"}
LookupCallFailed == Looked /\ (~lookup.store_up \/ lookup.sem.kind = "raise")

\* C13: a failure of the store or of the search during the cache lookup (the
\* exact keyed read, the embedding call or the vector search) is caught
\* inside _check_qa_library and treated as a miss: the lookup returns None.
C13_LookupFailureIsMiss ==
    (LookupCallFailed /\ ~NormalizerFailed) => lookup.out.kind = "miss"

\* the lookup immediately follows a successful promotion of the same question
LookupAfterLearn ==
    /\ Looked
    /\ lookup.after.kind = "learned"
    /\ lookup.after.question = lookup.question

\* C14: learn_from_feedback(q, a, s) followed immediately by a cache lookup
\* for q, with the fingerprint recomputed by the normalizer, returns a record
\* whose answer equals a (no store, search or classifier call failing).
C14_LearnThenLookupReturnsAnswer ==
    (LookupAfterLearn /\ ~LookupCallFailed /\ ~NormalizerFailed) =>
        /\ LookupMatched
        /\ lookup.out.record.answer = lookup.after.answer

\* the stored fingerprints with their answers
FingerprintAnswers(lib) ==
    {<<lib[i].question_fingerprint, lib[i].answer>> : i \in DOMAIN lib}

OnePerFingerprint ==
    \A i, j \in DOMAIN qa_library :
        qa_library[i].question_fingerprint = qa_library[j].question_fingerprint => i = j

\* a successful promotion leaves its answer under the fingerprint it returns
ReturnedFingerprintHoldsAnswer ==
    lastLearn.kind = "learned" =>
        <<lastLearn.fingerprint, lastLearn.answer>> \in FingerprintAnswers(qa_library)

\* a record changes only by a promotion that returns its fingerprint
ChangedOnlyByItsPromotion ==
    \A i \in DOMAIN qa_library :
        \/ i \in DOMAIN qa_library' /\ qa_library'[i] = qa_library[i]
        \/ /\ lastLearn'.kind = "learned"
           /\ lastLearn'.fingerprint = qa_library[i].question_fingerprint

\* the step promotes again the question and the answer just promoted
RePromotion ==
    /\ lastLearn.kind = "learned"
    /\ lastLearn'.kind = "learned"
    /\ lookup' = NoLookup
    /\ lastLearn'.question = lastLearn.question
    /\ lastLearn'.answer = lastLearn.answer

RePromotionChangesNothing ==
    RePromotion => FingerprintAnswers(qa_library') = FingerprintAnswers(qa_library)

\* C15: after any sequence of learn_from_feedback calls the store holds at
\* most one record per fingerprint, holding the answer written by the last
\* promotion for that fingerprint, which learn_from_feedback returns; and
\* promoting the same question with the same answer again leaves the stored
\* fingerprints and their answers unchanged.
C15_IdempotentUpsert ==
    /\ [](OnePerFingerprint /\ ReturnedFingerprintHoldsAnswer)
    /\ [][ChangedOnlyByItsPromotion]_vars
    /\ [][RePromotionChangesNothing]_vars

\* the step is a successful learn_from_feedback
Promotion == lastLearn'.kind = "learned" /\ lookup' = NoLookup

\* C16: learn_from_feedback is the only operation that changes the store:
\* the lookups of answer_question, answer_batch and retrieve leave every
\* record unchanged, and the number of records never decreases.
C16_OnlyLearnWrites ==
    [][/\ qa_library' # qa_library => Promotion
       /\ Len(qa_library') >= Len(qa_library)
       /\ lookup' # lookup /\ lookup' # NoLookup => qa_library' = qa_library]_vars

\* a question is looked up in a store holding two records, which stay
C16_Witness ==
    /\ Looked
    /\ Len(qa_library) = 2
    /\ lookup.out.kind \in {"match", "miss"}
    /\ lookup.after.kind = "learned"

\* C17: two calls of _normalize_question with identical text (here the one
\* of a promotion and the one of the lookup that follows it) return the same
\* fingerprint and the same category, whatever the LLM replies.
C17_NormalizerIsDeterministic ==
    (LookupAfterLearn /\ LookupReturned) =>
        /\ lookup.out.fingerprint = lookup.after.fingerprint
        /\ lookup.out.category = lookup.after.category

\* the category values the classifier is asked to choose from
Taxonomy ==
    {"encryption", "access_control", "logging", "incident_response", "compliance",
     "data_handling", "network", "authentication", "other"}

ClassifierFailed == Looked /\ lookup.classifier \in {"raise", "unparseable"}

\* C18: when the normalizer's classifier fails (the LLM call raises or times
\* out, or its output does not parse), _normalize_question does not raise: it
\* returns the fallback fingerprint and a category of the closed taxonomy.
C18_ClassifierFailureFallsBack ==
    ClassifierFailed =>
        /\ ~(lookup.out.kind = "raise" /\ lookup.out.failed = "normalizer")
        /\ lookup.out.fingerprint = FallbackFingerprint(lookup.question)
        /\ LookupReturned => lookup.out.category \in Taxonomy

(***************************************************************************)
(* Claims about the routing of an escalation (SpecRoute).                   *)
(***************************************************************************)
Routed == rtPc = "routed" /\ rtOut.out.kind = "ok"
RtEmployees == rtIn.database.employees
RtLookups == rtOut.out.lookups
RtDepartment ==
    ResolveDepartment(rtIn.suggested_department,
                      IF rtOut.router = "src"
                      THEN suggest_department_from_category(rtIn.category)
                      ELSE root_suggest_department_from_category(rtIn.category))
RtHits(step) == Hits(RtEmployees, step, rtIn.category, RtDepartment)

\* the first step of the order that the router may issue: the src router
\* has no expertise query when there is no category
FirstStep == IF rtOut.router = "src" /\ ~Truthy(rtIn.category) THEN 2 ELSE 1

\* the lookups issued are consecutive steps of the fixed order, each issued
\* only after every earlier one matched nobody, and the employee returned is
\* the one the last of them found
OrderedFallback ==
    LET order == StepOrder(rtOut.router)
        n == Len(RtLookups)
    IN  /\ n >= 1
        /\ n <= 4
        /\ FirstStep + n - 1 <= Len(order)
        /\ RtLookups = SubSeq(order, FirstStep, FirstStep + n - 1)
        /\ \A k \in 1..(n - 1) : RtHits(RtLookups[k]) = {}
        /\ IF RtHits(RtLookups[n]) # {}
           THEN rtOut.out.routed_to.id = RtEmployees[First(RtHits(RtLookups[n]))].id
           ELSE /\ rtOut.out.routed_to = NoEmployee
                /\ FirstStep + n - 1 = Len(order)

InSecurityDepartment == {i \in DOMAIN RtEmployees : RtEmployees[i].department = "Security"}

\* category "encryption", nobody with that expertise, one Security employee
EncryptionScenario ==
    /\ Routed
    /\ rtIn.category = "encryption"
    /\ \A i \in DOMAIN RtEmployees : ~HasExpertise(RtEmployees[i], "encryption")
    /\ Cardinality(InSecurityDepartment) = 1

TheSecurityEmployeeIsReturned ==
    \E i \in InSecurityDepartment : rtOut.out.routed_to.id = RtEmployees[i].id

C20_NullOnlyWhenDirectoryEmpty ==
    (rtPc = "routed" /\ RtEmployees # <<>>) =>
        /\ rtOut.out.kind = "ok"
        /\ \E i \in DOMAIN RtEmployees : rtOut.out.routed_to.id = RtEmployees[i].id

RtTable == IF rtOut.router = "src" THEN CategoryToDept ELSE RootCategoryToDept

\* the table entries whose key is contained in the lower-cased category
RtTableHits ==
    IF Truthy(rtIn.category)
    THEN {i \in DOMAIN RtTable : KeyIn(RtTable[i].key, CategoryLower(rtIn.category))}
    ELSE {}

\* C21: the router resolves the department as the suggested department if
\* non-empty; otherwise as the entry of the category-to-department table
\* whose key is contained in the lower-cased category, first in table order;
\* otherwise "Security" (also when the category is absent).  The resolved
\* department is never empty.
C21_DepartmentResolution ==
    Routed =>
        /\ Truthy(rtOut.out.resolved)
        /\ Truthy(rtIn.suggested_department) =>
               rtOut.out.resolved = rtIn.suggested_department
        /\ (~Truthy(rtIn.suggested_department) /\ RtTableHits # {}) =>
               \E i \in RtTableHits :
                   /\ \A j \in RtTableHits : i <= j
                   /\ rtOut.out.resolved = RtTable[i].dept
        /\ (~Truthy(rtIn.suggested_department) /\ RtTableHits = {}) =>
               rtOut.out.resolved = "Security"

\* a category holding two keys of different departments, nothing suggested
C21_Witness ==
    /\ Routed
    /\ rtIn.category = "Database Encryption"
    /\ rtIn.suggested_department = ""
    /\ Cardinality(RtTableHits) = 2
    /\ rtOut.out.resolved = "Security"

(***************************************************************************)
(* Claims about the legacy batch (SpecLegacy).                              *)
(***************************************************************************)
LegacyLengths ==
    {lgIn.questions, lgIn.answers, lgIn.confidence_scores,
     IF lgIn.has_categories THEN lgIn.categories ELSE lgIn.questions}

\* C22: a malformed legacy batch is rejected before any question is
\* processed: process_batch_legacy raises ValueError, making no LLM or
\* directory call, whenever the lengths of questions, answers,
\* confidence_scores and categories are not all equal.
C22_MismatchedLengthsRejected ==
    (lgPc = "returned" /\ Cardinality(LegacyLengths) > 1) =>
        /\ lgOut.kind = "raise"
        /\ lgOut.error = "ValueError"
        /\ lgOut.firework_calls = 0
        /\ lgOut.directory_calls = 0

(***************************************************************************)
(* Claims about the batching of a questionnaire (Spec).                     *)
(***************************************************************************)
Completed == output # NoOutput /\ output.status = "completed"
AskedIds == [i \in 1..Len(request.questions) |-> request.questions[i].question_id]
AnsweredIds ==
    [i \in 1..Len(Flatten(output.batches)) |-> Flatten(output.batches)[i].question_id]

Range(seq) == {seq[i] : i \in DOMAIN seq}

\* C24: every Citation returned by find_citations, and so every citation of
\* an AnswerResult, has the doc_id of one of the candidate documents passed
\* in for that question.
C24_CitationsFromCandidates ==
    Range(orchTrace.citations) \subseteq Range(orchTrace.candidates)

(***************************************************************************)
(* Further claims about the knowledge agent (SpecKA).                       *)
(***************************************************************************)
KaRetrievedNothing ==
    /\ kaPc # "idle"
    /\ "chunk_search" \in kaCalls
    /\ kaIn.replies.search = "ok"
    /\ KaEvidence = <<>>

NoEvidenceReasons ==
    {"Evidence is topically related but doesn't answer the question: No evidence available",
     "No relevant evidence found in knowledge base"}

\* C25: when retrieval returns no evidence, answer_question yields score 0.0
\* and a response with needs_escalation = true whose escalation_reason
\* mentions that there is no evidence, for every confidence_threshold in
\* [0, 1], and without ever calling the drafter.
C25_NoEvidenceEscalates ==
    KaRetrievedNothing =>
        /\ kaPc = "returned"
        /\ "drafter_llm" \notin kaCalls
        /\ kaResp.confidence = 0
        /\ kaResp.needs_escalation
        /\ kaResp.escalation_reason \in NoEvidenceReasons

\* C29: every AgentResponse of answer_question has a source_type consistent
\* with its escalation flag: needs_escalation = true if and only if
\* source_type = "escalate" (answer "[REQUIRES HUMAN REVIEW]", confidence
\* below the threshold); a "vector_search" response has confidence at or
\* above the threshold and non-empty evidence; a "qa_library" response has
\* needs_escalation = false.
C29_SourceTypeMatchesFlag ==
    kaPc = "returned" =>
        /\ kaResp.source_type \in {"escalate", "vector_search", "qa_library"}
        /\ kaResp.needs_escalation <=> kaResp.source_type = "escalate"
        /\ kaResp.source_type = "escalate" =>
               /\ kaResp.answer = "[REQUIRES HUMAN REVIEW]"
               /\ kaResp.confidence < confidence_threshold
        /\ kaResp.source_type = "vector_search" =>
               /\ kaResp.confidence >= confidence_threshold
               /\ kaResp.evidence # <<>>
        /\ kaResp.source_type = "qa_library" => ~kaResp.needs_escalation

\* a drafted answer whose confidence equals the threshold
C29_Witness ==
    /\ kaPc = "returned"
    /\ kaResp.source_type = "vector_search"
    /\ kaResp.confidence = confidence_threshold
    /\ kaResp.evidence # <<>>

\* the attempt got HTTP 200 and a text that parses as a JSON object
ModelSucceeded(attempt) == attempt.ok

\* C27: _check_with_firework never raises and makes at most one attempt per
\* configured model (at most 3): it returns the decision of the first model
\* whose response is HTTP 200 and parses as a JSON object, and if no model
\* succeeds it returns the threshold-only decision, whose requires_escalation
\* equals (confidence < confidence_threshold) and whose department is the
\* category-table suggestion.
C27_FireworkDecisionOrFallback ==
    \A i \in DOMAIN lgOut.checks :
        LET attempt == lgOut.items[i].attempt
            check == lgOut.checks[i]
        IN  /\ check.calls <= MODEL_COUNT
            /\ ModelSucceeded(attempt) => check.decision = attempt.decision
            /\ ~ModelSucceeded(attempt) =>
                  /\ {"requires_escalation", "department"} \subseteq DOMAIN check.decision
                  /\ check.decision.requires_escalation
                       = JsonBool(lgOut.items[i].confidence < confidence_threshold)
                  /\ check.decision.department
                       = root_suggest_department_from_category(None)

\* the routing fields of one EscalationResult agree with its decision
RoutingFieldsConsistent(r) ==
    /\ ~r.requires_escalation =>
          /\ r.routed_to = NoEmployee
          /\ r.department = None
          /\ r.escalation_reason = None
    /\ r.requires_escalation =>
          /\ r.escalation_reason # None
          /\ (r.department # None) <=> (r.routed_to # NoEmployee)
          /\ r.routed_to # NoEmployee => r.department = r.routed_to.department

\* C28: in every EscalationResult of process_answers and process_batch, if
\* requires_escalation is false then routed_to, department and
\* escalation_reason are all null; if it is true then escalation_reason is
\* non-null, and department is non-null exactly when routed_to is non-null,
\* in which case it is routed_to's department.
C28_RoutingFieldsConsistent ==
    \A i \in 1..Len(escResults) : RoutingFieldsConsistent(escResults[i])

\* the text of a question without letter case, blanks, ? and '
QuestionText(q) == RemoveChar(RemoveChar(RemoveChar(MapLower(q), " "), "?"), "'")

\* the lookup follows a promotion of a question with another text, and
\* returns the record that promotion wrote
OtherQuestionsRecordReturned ==
    /\ LookupMatched
    /\ lookup.after.kind = "learned"
    /\ QuestionText(lookup.after.question) # QuestionText(lookup.question)
    /\ lookup.out.record.question_fingerprint = lookup.after.fingerprint
    /\ lookup.out.record.answer = lookup.after.answer

\* C30: two questions whose texts differ (beyond letter case, whitespace and
\* the characters ? and ') never receive the same fingerprint from
\* _normalize_question, so after learn_from_feedback(q1, a, s) a lookup for a
\* different question q2 returns that record only through the semantic path,
\* with a similarity above 0.85.
C30_ExactHitOnlyForThePromotedQuestion ==
    OtherQuestionsRecordReturned =>
        /\ lookup.out.fingerprint # lookup.after.fingerprint
        /\ SemanticIssued
        /\ lookup.sem.kind = "hit"
        /\ lookup.sem.score > SEMANTIC_THRESHOLD

(***************************************************************************)
(* Claims about questions worked on side by side (SpecWorkers).            *)
(***************************************************************************)
\* what the loop body of _process_batch gives for the question of worker w
\* when it is processed alone
AloneAnswer(w) ==
    process_question(QuestionOf(w), ContextDocs, confidence_threshold,
                     workers[w].in.kr, workers[w].in.cr, workers[w].in.dr)

\* what the loop body of process_answers gives for that answer alone
AloneResult(w) ==
    escalate_answer("process_answers", AloneAnswer(w).answer, confidence_threshold,
                    workers[w].in.attempts, directory)

WorkerDone(w) == workers[w].pc = "done"

=============================================================================
